---- MODULE Spec2Model ----
(***************************************************************************)
(* Model of the nextbus-rs request builder and command validator           *)
(* (src/src/request.rs).  A Request is built up by setter calls and then   *)
(* handed to validate through get_url; `ret' holds what the last call on   *)
(* the Request returned.                                                   *)
(***************************************************************************)
EXTENDS Integers, Sequences, FiniteSets, TLC

\* ------------------------------------------------------------------------
\* Bounds of the model
\* ------------------------------------------------------------------------

\* longest route list and stop list a Request is built with
MaxLen == 2

\* most GETs the transport is asked to perform in one behaviour
MaxGets == 1

\* ------------------------------------------------------------------------
\* Option<T>: None is the empty sequence, Some(x) the one-element sequence
\* ------------------------------------------------------------------------

None == << >>

Some(x) == << x >>

is_some(o) == o # None

is_none(o) == o = None

unwrap(o) == o[1]

\* ------------------------------------------------------------------------
\* Inputs of the builder calls
\* ------------------------------------------------------------------------

Command == {"AgencyList", "RouteList", "RouteConfig", "Predictions",
            "PredictionsForMultiStops", "Schedule", "Messages",
            "VehicleLocations"}

AgencyNames == {"test_agency", "mbta"}

RouteNames == {"one", "two"}

StopNames == {"stop_1", "stop_2"}

TimeValues == {0, 12}

RECURSIVE SeqsUpTo(_, _)
SeqsUpTo(S, n) ==
    IF n = 0 THEN { << >> }
    ELSE LET shorter == SeqsUpTo(S, n - 1)
         IN  shorter \cup { Append(s, x) : s \in shorter, x \in S }

RouteLists == SeqsUpTo(RouteNames, MaxLen)

StopLists == SeqsUpTo(StopNames, MaxLen)

\* ------------------------------------------------------------------------
\* State
\* ------------------------------------------------------------------------

VARIABLES command, agency, routes, stops, time, ret

\* the argument of the last call of a method that sets a field or adds one
\* element (<< >> after every other call)
VARIABLE arg

\* the number of GETs the transport (hyper Client) has been asked to perform
VARIABLE gets

\* a per-command builder and the position of its get(): the builder's own
\* fields, the stage get() is at, the stages it has run, and what it returned
VARIABLES builder, pc, stages, out

\* the decoder: the event stream the EventReader yields, the number of
\* events read from it, the open parse functions with their locals, and the
\* records whose construction has been attempted
VARIABLES doc, pos, stack, finalized

\* every call of a from_xml that has returned: the function, the stream it
\* was given and its result
VARIABLE decoded

reqvars == << command, agency, routes, stops, time, ret, arg >>

getvars == << builder, pc, stages, out, doc, pos, stack, finalized,
             decoded >>

vars == << command, agency, routes, stops, time, ret, arg, gets,
           builder, pc, stages, out, doc, pos, stack, finalized, decoded >>

\* the Request as validate sees it (&self)
Request == [command |-> command, agency |-> agency, routes |-> routes,
            stops |-> stops, time |-> time]

\* what a builder method returns: &mut Self
RetSelf(op) == [op |-> op, kind |-> "Self", err |-> "", url |-> << >>]

RetOk(op, url) == [op |-> op, kind |-> "Ok", err |-> "", url |-> url]

RetErr(op, e) == [op |-> op, kind |-> "Err", err |-> e, url |-> << >>]

\* ::Result<T> of a per-command get() and of from_xml
OkResult(v) == [kind |-> "Ok", err |-> "", value |-> v]

ErrResult(e) == [kind |-> "Err", err |-> e, value |-> << >>]

\* a panic unwinds the thread: nothing is returned
PanicResult == [kind |-> "Panic", err |-> "", value |-> << >>]

NoResult == [kind |-> "None", err |-> "", value |-> << >>]

\* ------------------------------------------------------------------------
\* Command's Display implementation: the wire name of each command
\* ------------------------------------------------------------------------

to_string(c) ==
    CASE c = "AgencyList" -> "agencyList"
      [] c = "RouteList" -> "routeList"
      [] c = "RouteConfig" -> "routeConfig"
      [] c = "Predictions" -> "predictions"
      [] c = "PredictionsForMultiStops" -> "predictionsForMultiStops"
      [] c = "Schedule" -> "schedule"
      [] c = "Messages" -> "messages"
      [] c = "VehicleLocations" -> "vehicleLocations"

\* usize::to_string: the decimal digits of n
Digit(d) == CASE d = 0 -> "0" [] d = 1 -> "1" [] d = 2 -> "2" [] d = 3 -> "3"
              [] d = 4 -> "4" [] d = 5 -> "5" [] d = 6 -> "6" [] d = 7 -> "7"
              [] d = 8 -> "8" [] d = 9 -> "9"

RECURSIVE usize_to_string(_)
usize_to_string(n) ==
    IF n < 10 THEN Digit(n)
    ELSE usize_to_string(n \div 10) \o Digit(n % 10)

\* ------------------------------------------------------------------------
\* Request::validate, first half: the per-command checks.  Each operator is
\* TRUE when its match arm returns Err(Error::BuildUrlError).
\* ------------------------------------------------------------------------

InvalidAgencyList(self) ==
    self.agency # None \/ self.routes # None \/
    self.stops # None \/ self.time # None

InvalidRouteList(self) ==
    self.agency = None \/ self.routes # None \/
    self.stops # None \/ self.time # None

\* variant: the stops check of the RouteConfig arm is left out
InvalidRouteConfig_IgnoresStops(self) ==
    \/ self.agency = None \/ self.time # None
    \/ (is_some(self.routes) /\ Len(unwrap(self.routes)) > 1)

\* variant: the arity test of NextBusUrl::new (routes.len() <= 1)
InvalidRouteConfig_LenAtMostOne(self) ==
    \/ self.agency = None \/ self.stops # None \/ self.time # None
    \/ (is_some(self.routes) /\ Len(unwrap(self.routes)) <= 1)

InvalidRouteConfig(self) ==
    \/ self.agency = None \/ self.stops # None \/ self.time # None
    \/ (is_some(self.routes) /\ Len(unwrap(self.routes)) > 1)

InvalidPredictions(self) ==
    \/ self.agency = None \/ self.routes = None \/
       self.stops = None \/ self.time # None
    \/ (is_some(self.routes) /\ Len(unwrap(self.routes)) # 1)
    \/ (is_some(self.stops) /\ Len(unwrap(self.stops)) # 1)

\* the second check looks at routes (already known to be None), not stops
InvalidPredictionsForMultiStops(self) ==
    \/ self.agency = None \/ self.routes # None \/
       self.stops = None \/ self.time # None
    \/ (is_some(self.routes) /\ Len(unwrap(self.routes)) = 0)

\* variant: the RouteConfig arity test (len > 1) copied into Schedule
InvalidSchedule_LenGreaterOne(self) ==
    \/ self.agency = None \/ self.routes = None \/
       self.stops # None \/ self.time # None
    \/ (is_some(self.routes) /\ Len(unwrap(self.routes)) > 1)

InvalidSchedule(self) ==
    \/ self.agency = None \/ self.routes = None \/
       self.stops # None \/ self.time # None
    \/ (is_some(self.routes) /\ Len(unwrap(self.routes)) # 1)

\* variant: the is_empty check of the Messages arm is left out
InvalidMessages_NoEmptyCheck(self) ==
    \/ self.agency = None \/ self.routes = None \/
       self.stops # None \/ self.time # None

\* variant: the Schedule arity test (len != 1) copied into Messages
InvalidMessages_ExactlyOne(self) ==
    \/ self.agency = None \/ self.routes = None \/
       self.stops # None \/ self.time # None
    \/ (is_some(self.routes) /\ Len(unwrap(self.routes)) # 1)

InvalidMessages(self) ==
    \/ self.agency = None \/ self.routes = None \/
       self.stops # None \/ self.time # None
    \/ (is_some(self.routes) /\ Len(unwrap(self.routes)) = 0)

\* variant: the time check of the VehicleLocations arm is left out
InvalidVehicleLocations_IgnoresTime(self) ==
    \/ self.agency = None \/ self.routes = None \/
       self.stops # None
    \/ (is_some(self.routes) /\ Len(unwrap(self.routes)) # 1)

InvalidVehicleLocations(self) ==
    \/ self.agency = None \/ self.routes = None \/
       self.stops # None \/ self.time = None
    \/ (is_some(self.routes) /\ Len(unwrap(self.routes)) # 1)

InvalidNoCommand(self) == self.command = None

\* match self.command { ... }
Invalid(self) ==
    IF self.command = None THEN InvalidNoCommand(self)
    ELSE LET c == unwrap(self.command)
         IN CASE c = "AgencyList" -> InvalidAgencyList(self)
              [] c = "RouteList" -> InvalidRouteList(self)
              [] c = "RouteConfig" -> InvalidRouteConfig(self)
              [] c = "Predictions" -> InvalidPredictions(self)
              [] c = "PredictionsForMultiStops" ->
                     InvalidPredictionsForMultiStops(self)
              [] c = "Schedule" -> InvalidSchedule(self)
              [] c = "Messages" -> InvalidMessages(self)
              [] c = "VehicleLocations" -> InvalidVehicleLocations(self)

\* variant: the None arm returns the builders' error kind
ValidateError_NoneArmDiffers(self) ==
    IF self.command = None THEN "BuildCommandError" ELSE "BuildUrlError"

\* the error every failing arm returns
ValidateError(self) == "BuildUrlError"

\* ------------------------------------------------------------------------
\* Request::validate, second half: the query pairs, in push order
\* ------------------------------------------------------------------------

CommandQuery(self) == << << "command", to_string(unwrap(self.command)) >> >>

AgencyQuery(self) ==
    IF is_some(self.agency) THEN << << "a", unwrap(self.agency) >> >>
    ELSE << >>

RouteQueries(self) ==
    IF is_some(self.routes)
    THEN LET rs == unwrap(self.routes)
         IN  [i \in 1..Len(rs) |-> << "r", rs[i] >>]
    ELSE << >>

\* variant: the stop pair is named stops whatever the command
StopParam_AlwaysStops(self) == "stops"

StopParam(self) ==
    IF self.command = Some("Predictions") THEN "s" ELSE "stops"

StopQueries(self) ==
    IF is_some(self.stops)
    THEN LET ss == unwrap(self.stops)
         IN  [i \in 1..Len(ss) |-> << StopParam(self), ss[i] >>]
    ELSE << >>

TimeQuery(self) ==
    IF is_some(self.time)
    THEN << << "t", usize_to_string(unwrap(self.time)) >> >>
    ELSE << >>

\* variant: the push order of NextBusUrl::new (t before r)
queries_TimeBeforeRoutes(self) ==
    CommandQuery(self) \o AgencyQuery(self) \o TimeQuery(self)
        \o RouteQueries(self) \o StopQueries(self)

queries(self) ==
    CommandQuery(self) \o AgencyQuery(self) \o RouteQueries(self)
        \o StopQueries(self) \o TimeQuery(self)

NEXTBUS_URL == "http://webservices.nextbus.com/service/publicXMLFeed"

\* Url::parse(NEXTBUS_URL) with set_query_from_pairs(queries)
Url(self) == [base |-> NEXTBUS_URL, query |-> queries(self)]

validate(self, op) ==
    IF Invalid(self) THEN RetErr(op, ValidateError(self))
    ELSE RetOk(op, Url(self))

\* ------------------------------------------------------------------------
\* NextBusUrl::new (nextbus_url.rs): the checks and the query pairs of the
\* url builder, over the same five fields.  AgencyTag, RouteTag and StopTag
\* display their string, Time its decimal digits.
\* ------------------------------------------------------------------------

\* match builder.command { ... }: TRUE when the arm returns Err(())
NextBusUrlInvalid(b) ==
    IF b.command = None THEN TRUE
    ELSE LET c == unwrap(b.command)
         IN CASE c = "AgencyList" ->
                   b.agency # None \/ b.routes # None \/
                   b.stops # None \/ b.time # None
              [] c = "RouteList" ->
                   b.agency = None \/ b.routes # None \/
                   b.stops # None \/ b.time # None
              [] c = "RouteConfig" ->
                   \/ b.agency = None \/ b.stops # None \/ b.time # None
                   \/ (is_some(b.routes) /\ Len(unwrap(b.routes)) <= 1)
              [] c = "Predictions" ->
                   \/ b.agency = None \/ b.routes = None \/
                      b.stops = None \/ b.time # None
                   \/ (is_some(b.routes) /\ Len(unwrap(b.routes)) # 1)
                   \/ (is_some(b.stops) /\ Len(unwrap(b.stops)) # 1)
              [] c = "PredictionsForMultiStops" ->
                   \/ b.agency = None \/ b.routes # None \/
                      b.stops = None \/ b.time # None
                   \/ (is_some(b.routes) /\ Len(unwrap(b.routes)) = 0)
              [] c = "Schedule" ->
                   \/ b.agency = None \/ b.routes = None \/
                      b.stops # None \/ b.time # None
                   \/ (is_some(b.routes) /\ Len(unwrap(b.routes)) # 1)
              [] c = "Messages" ->
                   \/ b.agency = None \/ b.routes = None \/
                      b.stops # None \/ b.time # None
                   \/ (is_some(b.routes) /\ Len(unwrap(b.routes)) = 0)
              [] c = "VehicleLocations" ->
                   \/ b.agency = None \/ b.routes = None \/
                      b.stops # None \/ b.time = None
                   \/ (is_some(b.routes) /\ Len(unwrap(b.routes)) # 1)

\* the pairs in push order: command, a, t, then every r, then every s/stops
NextBusUrlQueries(b) ==
    << << "command", to_string(unwrap(b.command)) >> >>
        \o (IF is_some(b.agency) THEN << << "a", unwrap(b.agency) >> >>
            ELSE << >>)
        \o (IF is_some(b.time)
            THEN << << "t", usize_to_string(unwrap(b.time)) >> >>
            ELSE << >>)
        \o (IF is_some(b.routes)
            THEN [i \in 1..Len(unwrap(b.routes)) |->
                     << "r", unwrap(b.routes)[i] >>]
            ELSE << >>)
        \o (IF is_some(b.stops)
            THEN [i \in 1..Len(unwrap(b.stops)) |->
                     << IF b.command = Some("Predictions") THEN "s"
                        ELSE "stops",
                        unwrap(b.stops)[i] >>]
            ELSE << >>)

\* Result<NextBusUrl, ()>
NextBusUrl_new(b) ==
    IF NextBusUrlInvalid(b)
    THEN [kind |-> "Err", url |-> << >>]
    ELSE [kind |-> "Ok",
          url |-> [base |-> NEXTBUS_URL, query |-> NextBusUrlQueries(b)]]

\* ------------------------------------------------------------------------
\* Init: Request::new()
\* ------------------------------------------------------------------------

\* no per-command builder exists and no decoder runs
NoGet ==
    /\ builder = [kind |-> "None", agency |-> None, route |-> None,
                  stop |-> None]
    /\ pc = "idle"
    /\ stages = << >>
    /\ out = NoResult
    /\ doc = << >>
    /\ pos = 0
    /\ stack = << >>
    /\ finalized = << >>
    /\ decoded = << >>

Init ==
    /\ command = None
    /\ agency = None
    /\ routes = None
    /\ stops = None
    /\ time = None
    /\ ret = RetSelf("new")
    /\ arg = << >>
    /\ gets = 0
    /\ NoGet

\* ------------------------------------------------------------------------
\* The builder methods
\* ------------------------------------------------------------------------

SetCommand ==
    \E c \in Command :
        /\ command' = Some(c)
        /\ ret' = RetSelf("command")
        /\ arg' = c
        /\ UNCHANGED << agency, routes, stops, time >>
        /\ UNCHANGED << gets, getvars >>

SetAgency ==
    \E a \in AgencyNames :
        /\ agency' = Some(a)
        /\ ret' = RetSelf("agency")
        /\ arg' = a
        /\ UNCHANGED << command, routes, stops, time >>
        /\ UNCHANGED << gets, getvars >>

\* variant: route(r) puts r after the routes already held
SetRoute_Appends ==
    \E r \in RouteNames :
        /\ LET current == IF is_none(routes) THEN << >> ELSE unwrap(routes)
           IN  /\ Len(current) < MaxLen
               /\ routes' = Some(Append(current, r))
        /\ ret' = RetSelf("route")
        /\ arg' = r
        /\ UNCHANGED << command, agency, stops, time >>
        /\ UNCHANGED << gets, getvars >>

SetRoute ==
    \E r \in RouteNames :
        /\ routes' = Some(<< r >>)
        /\ ret' = RetSelf("route")
        /\ arg' = r
        /\ UNCHANGED << command, agency, stops, time >>
        /\ UNCHANGED << gets, getvars >>

\* if self.routes.is_none() { self.routes = Some(vec![]); }
\* self.routes.as_mut().map(|routes| routes.push(route));
add_route(list, route) ==
    Some(Append(IF is_none(list) THEN << >> ELSE unwrap(list), route))

AddRoute ==
    \E r \in RouteNames :
        /\ LET current == IF is_none(routes) THEN << >> ELSE unwrap(routes)
           IN  Len(current) < MaxLen
        /\ routes' = add_route(routes, r)
        /\ ret' = RetSelf("add_route")
        /\ arg' = r
        /\ UNCHANGED << command, agency, stops, time >>
        /\ UNCHANGED << gets, getvars >>

SetRoutes ==
    \E v \in RouteLists :
        /\ routes' = Some(v)
        /\ ret' = RetSelf("routes")
        /\ arg' = v
        /\ UNCHANGED << command, agency, stops, time >>
        /\ UNCHANGED << gets, getvars >>

\* self.routes.as_mut().map(...): nothing is appended to an unset list
append_routes(list, v) ==
    IF is_some(list) THEN Some(unwrap(list) \o v) ELSE list

AppendRoutes ==
    \E v \in RouteLists :
        /\ is_some(routes) => Len(unwrap(routes)) + Len(v) <= MaxLen
        /\ routes' = append_routes(routes, v)
        /\ ret' = RetSelf("append_routes")
        /\ arg' = << >>
        /\ UNCHANGED << command, agency, stops, time >>
        /\ UNCHANGED << gets, getvars >>

SetStop ==
    \E s \in StopNames :
        /\ stops' = Some(<< s >>)
        /\ ret' = RetSelf("stop")
        /\ arg' = s
        /\ UNCHANGED << command, agency, routes, time >>
        /\ UNCHANGED << gets, getvars >>

\* variant: add_stop(s) leaves an unset stop list unset
AddStop_IgnoresUnset ==
    \E s \in StopNames :
        /\ IF is_some(stops)
           THEN /\ Len(unwrap(stops)) < MaxLen
                /\ stops' = Some(Append(unwrap(stops), s))
           ELSE stops' = stops
        /\ ret' = RetSelf("add_stop")
        /\ arg' = s
        /\ UNCHANGED << command, agency, routes, time >>
        /\ UNCHANGED << gets, getvars >>

\* if self.stops.is_none() {self.stops = Some(vec![]); }
\* self.stops.as_mut().map(|stops| stops.push(stop));
add_stop(list, stop) ==
    Some(Append(IF is_none(list) THEN << >> ELSE unwrap(list), stop))

AddStop ==
    \E s \in StopNames :
        /\ LET current == IF is_none(stops) THEN << >> ELSE unwrap(stops)
           IN  Len(current) < MaxLen
        /\ stops' = add_stop(stops, s)
        /\ ret' = RetSelf("add_stop")
        /\ arg' = s
        /\ UNCHANGED << command, agency, routes, time >>
        /\ UNCHANGED << gets, getvars >>

SetStops ==
    \E v \in StopLists :
        /\ stops' = Some(v)
        /\ ret' = RetSelf("stops")
        /\ arg' = v
        /\ UNCHANGED << command, agency, routes, time >>
        /\ UNCHANGED << gets, getvars >>

\* self.stops.as_mut().map(...): nothing is appended to an unset list
append_stops(list, v) ==
    IF is_some(list) THEN Some(unwrap(list) \o v) ELSE list

AppendStops ==
    \E v \in StopLists :
        /\ is_some(stops) => Len(unwrap(stops)) + Len(v) <= MaxLen
        /\ stops' = append_stops(stops, v)
        /\ ret' = RetSelf("append_stops")
        /\ arg' = << >>
        /\ UNCHANGED << command, agency, routes, time >>
        /\ UNCHANGED << gets, getvars >>

SetTime ==
    \E t \in TimeValues :
        /\ time' = Some(t)
        /\ ret' = RetSelf("time")
        /\ arg' = t
        /\ UNCHANGED << command, agency, routes, stops >>
        /\ UNCHANGED << gets, getvars >>

\* variant: validate takes the route list out of the Request
GetUrl_TakesRoutes ==
    /\ ret' = validate(Request, "get_url")
    /\ arg' = << >>
    /\ routes' = None
    /\ UNCHANGED << command, agency, stops, time >>
    /\ UNCHANGED << gets, getvars >>

\* get_url(&self) is validate(&self)
GetUrl ==
    /\ ret' = validate(Request, "get_url")
    /\ arg' = << >>
    /\ UNCHANGED << command, agency, routes, stops, time >>
    /\ UNCHANGED << gets, getvars >>

Next ==
    \/ SetCommand
    \/ SetAgency
    \/ SetRoute
    \/ AddRoute
    \/ SetRoutes
    \/ AppendRoutes
    \/ SetStop
    \/ AddStop
    \/ SetStops
    \/ AppendStops
    \/ SetTime
    \/ GetUrl

Spec == Init /\ [][Next]_vars

\* ------------------------------------------------------------------------
\* Request::send: validate, then one GET through a fresh Client
\* ------------------------------------------------------------------------

\* client.get(url).send(): a Response or a hyper error
TransportOutcomes == {"Response", "HyperError"}

\* variant: a GET that failed is issued a second time
SendResult_RetriesOnce(self, outcome) ==
    LET v == validate(self, "send")
    IN  IF v.kind = "Err" THEN [ret |-> v, issued |-> 0]
        ELSE IF outcome = "HyperError"
        THEN [ret |-> RetErr("send", "HttpError"), issued |-> 2]
        ELSE [ret |-> RetOk("send", v.url), issued |-> 1]

\* variant: the GET is issued before the Request is validated
SendResult_GetFirst(self, outcome) ==
    LET v == validate(self, "send")
    IN  IF outcome = "HyperError"
        THEN [ret |-> RetErr("send", "HttpError"), issued |-> 1]
        ELSE IF v.kind = "Err" THEN [ret |-> v, issued |-> 1]
        ELSE [ret |-> RetOk("send", v.url), issued |-> 1]

\* let url = try!(self.validate());
\* let res = try!(client.get(url).send()); Ok(res)
SendResult(self, outcome) ==
    LET v == validate(self, "send")
    IN  IF v.kind = "Err" THEN [ret |-> v, issued |-> 0]
        ELSE IF outcome = "HyperError"
        THEN [ret |-> RetErr("send", "HttpError"), issued |-> 1]
        ELSE [ret |-> RetOk("send", v.url), issued |-> 1]

Send ==
    /\ gets < MaxGets
    /\ \E outcome \in TransportOutcomes :
           LET r == SendResult(Request, outcome)
           IN  /\ ret' = r.ret
               /\ gets' = gets + r.issued
    /\ arg' = << >>
    /\ UNCHANGED << command, agency, routes, stops, time >>
    /\ UNCHANGED getvars

SendNext ==
    \/ SetCommand
    \/ SetAgency
    \/ SetRoute
    \/ AddRoute
    \/ SetRoutes
    \/ AppendRoutes
    \/ SetStop
    \/ AddStop
    \/ SetStops
    \/ AppendStops
    \/ SetTime
    \/ Send

SendSpec == Init /\ [][SendNext]_vars

\* ------------------------------------------------------------------------
\* The XML event stream (xml::reader::EventReader).  An attribute list is a
\* sequence of << name, value >> pairs.
\* ------------------------------------------------------------------------

StartElement(name, attributes) ==
    [type |-> "StartElement", name |-> name, attributes |-> attributes]

EndElement(name) ==
    [type |-> "EndElement", name |-> name, attributes |-> << >>]

\* whitespace, characters, comments, StartDocument
OtherEvent == [type |-> "Other", name |-> "", attributes |-> << >>]

EndDocument == [type |-> "EndDocument", name |-> "", attributes |-> << >>]

\* Err(_): the stream reports a syntax error
ErrEvent == [type |-> "Err", name |-> "", attributes |-> << >>]

\* parser.next(): the event after the n read so far; once the stream has
\* ended (EndDocument or Err) every further call returns that last event
EventAt(d, n) == IF n < Len(d) THEN d[n + 1] ELSE d[Len(d)]

\* ------------------------------------------------------------------------
\* str::parse for the attribute types.  None stands for the Err of FromStr.
\* ------------------------------------------------------------------------

\* largest number whose decimal numeral the usize parser is tried on
MaxNumeral == 60

\* usize: the number whose decimal digits are v
usize_parse(v) ==
    LET ns == { n \in 0..MaxNumeral : usize_to_string(n) = v }
    IN  IF ns = {} THEN None ELSE Some(CHOOSE n \in ns : TRUE)

\* bool: only the two literals
bool_parse(v) ==
    CASE v = "true" -> Some(TRUE)
      [] v = "false" -> Some(FALSE)
      [] OTHER -> None

\* f32: the value of the numeral, in hundredths
f32_parse(v) ==
    CASE v = "42.35" -> Some(4235)
      [] v = "42.36" -> Some(4236)
      [] v = "-71.09" -> Some(0 - 7109)
      [] v = "-71.1" -> Some(0 - 7110)
      [] OTHER -> None

\* String: infallible
String_parse(v) == Some(v)

parse(ty, v) ==
    CASE ty = "String" -> String_parse(v)
      [] ty = "f32" -> f32_parse(v)
      [] ty = "usize" -> usize_parse(v)
      [] ty = "bool" -> bool_parse(v)

\* ------------------------------------------------------------------------
\* The attribute walk of each structural unit: one row per match arm,
\* << attribute name, field, type of the field >>, and the fields its
\* struct literal takes through try!(x.ok_or(Error::ParseError)).
\* ------------------------------------------------------------------------

AgencyAttrs ==
    << << "tag", "tag", "String" >>,
       << "title", "title", "String" >>,
       << "shortTitle", "short_title", "String" >>,
       << "regionTitle", "region_title", "String" >> >>

AgencyRequired == {"tag", "title", "region_title"}

RouteListRouteAttrs ==
    << << "tag", "tag", "String" >>,
       << "title", "title", "String" >>,
       << "shortTitle", "short_title", "String" >> >>

RouteListRouteRequired == {"tag", "title"}

RouteAttrs ==
    << << "tag", "tag", "String" >>,
       << "title", "title", "String" >>,
       << "color", "color", "String" >>,
       << "oppositeColor", "opposite_color", "String" >>,
       << "latMin", "lat_min", "f32" >>,
       << "latMax", "lat_max", "f32" >>,
       << "lonMin", "lon_min", "f32" >>,
       << "lonMax", "lon_max", "f32" >> >>

RouteRequired == {"tag", "title", "color", "opposite_color",
                  "lat_min", "lat_max", "lon_min", "lon_max"}

\* Stop.lat and Stop.lon are Strings: their parse cannot fail
StopAttrs ==
    << << "tag", "tag", "String" >>,
       << "title", "title", "String" >>,
       << "lat", "lat", "String" >>,
       << "lon", "lon", "String" >>,
       << "shortTitle", "short_title", "String" >>,
       << "stopId", "stop_id", "String" >> >>

StopRequired == {"tag", "title", "lat", "lon"}

DirectionAttrs ==
    << << "tag", "tag", "String" >>,
       << "title", "title", "String" >>,
       << "name", "name", "String" >>,
       << "useForUI", "use_for_ui", "bool" >> >>

DirectionRequired == {"tag", "title", "name", "use_for_ui"}

StopStubAttrs == << << "tag", "tag", "String" >> >>

StopStubRequired == {"tag"}

\* the walk over the attributes of a tag child of a path
PathAttrs == << << "id", "tag", "String" >> >>

PathRequired == {"tag"}

PointAttrs ==
    << << "lat", "lat", "f32" >>,
       << "lon", "lon", "f32" >> >>

PointRequired == {"lat", "lon"}

PredictionsAttrs ==
    << << "agencyTitle", "agency_title", "String" >>,
       << "routeTag", "route_tag", "String" >>,
       << "routeCode", "route_code", "String" >>,
       << "routeTitle", "route_title", "String" >>,
       << "stopTitle", "stop_title", "String" >>,
       << "dirTitleBecauseNoPredictions",
          "dir_title_because_no_predictions", "String" >> >>

\* variant: the literal takes stop_title as it is (no try!)
PredictionsRequired_StopTitleOptional ==
    {"agency_title", "route_tag", "route_title"}

PredictionsRequired ==
    {"agency_title", "route_tag", "route_title", "stop_title"}

PredictionDirectionAttrs == << << "title", "title", "String" >> >>

PredictionDirectionRequired == {"title"}

\* the arm for affected_by_layover matches the name "affecteByLayover"
PredictionAttrs ==
    << << "seconds", "seconds", "usize" >>,
       << "minutes", "minutes", "usize" >>,
       << "epochTime", "epoch_time", "usize" >>,
       << "isDeparture", "is_departure", "bool" >>,
       << "block", "block", "String" >>,
       << "dirTag", "dir_tag", "String" >>,
       << "tripTag", "trip_tag", "String" >>,
       << "branch", "branch", "String" >>,
       << "affecteByLayover", "affected_by_layover", "bool" >>,
       << "isScheduleBased", "is_schedule_based", "bool" >>,
       << "delayed", "delayed", "bool" >> >>

PredictionRequired == {"seconds", "minutes", "epoch_time", "is_departure",
                       "block", "dir_tag"}

MessageAttrs ==
    << << "text", "text", "String" >>,
       << "priority", "priority", "String" >> >>

MessageRequired == {"text"}

\* ------------------------------------------------------------------------
\* The attribute walk and the struct literal, for any unit
\* ------------------------------------------------------------------------

SetMax(S) == CHOOSE x \in S : \A y \in S : y <= x

Fields(table) == { table[k][2] : k \in 1..Len(table) }

Row(table, f) == table[CHOOSE k \in 1..Len(table) : table[k][2] = f]

\* all fields None, as they are declared before the walk
EmptyScratch(table) == [f \in Fields(table) |-> None]

\* variant: the walk also gives up on an attribute it has no arm for
WalkPanics_OnUnknown(table, attributes) ==
    \E i \in 1..Len(attributes) :
        \/ \A k \in 1..Len(table) : table[k][1] # attributes[i][1]
        \/ \E k \in 1..Len(table) :
               /\ table[k][1] = attributes[i][1]
               /\ parse(table[k][3], attributes[i][2]) = None

\* value.parse().unwrap() panics on a malformed value of a known attribute
WalkPanics(table, attributes) ==
    \E i \in 1..Len(attributes) : \E k \in 1..Len(table) :
        /\ table[k][1] = attributes[i][1]
        /\ parse(table[k][3], attributes[i][2]) = None

\* for attribute in attributes { match name { ... , _ => () } }: a known
\* attribute sets its field, the last occurrence staying; an unknown one
\* is skipped; a field with no attribute keeps what it held
Walk(table, attributes, scratch) ==
    [f \in Fields(table) |->
        LET row == Row(table, f)
            idx == { i \in 1..Len(attributes) : attributes[i][1] = row[1] }
        IN  IF idx = {} THEN scratch[f]
            ELSE parse(row[3], attributes[SetMax(idx)][2])]

\* variant: the literal takes every field as it is, set or not
Construct_TakesUnset(required, scratch, children) ==
    OkResult([f \in DOMAIN scratch |-> scratch[f]] @@ children)

\* Unit { f: try!(f.ok_or(Error::ParseError)), ..., g: g, children }
Construct(required, scratch, children) ==
    IF \E f \in required : scratch[f] = None
    THEN ErrResult("ParseError")
    ELSE OkResult([f \in DOMAIN scratch |->
                      IF f \in required THEN unwrap(scratch[f])
                      ELSE scratch[f]] @@ children)

\* ------------------------------------------------------------------------
\* The decoder's configuration: the stack of open parse functions (the
\* last frame is the running one), what from_xml has returned, and the log
\* of the struct literals evaluated so far with the scratch fields they saw
\* ------------------------------------------------------------------------

Top(c) == c.stack[Len(c.stack)]

SetTop(c, f) == [c EXCEPT !.stack[Len(c.stack)] = f]

Push(c, f) == [c EXCEPT !.stack = Append(@, f)]

\* from_xml returns r (a try! propagates an Err through every caller)
Return(c, r) == [c EXCEPT !.out = r, !.stack = << >>]

Log(c, unit, scratch) ==
    [c EXCEPT !.finalized = Append(@, [unit |-> unit, scratch |-> scratch])]

\* variant: a unit that cannot be built is left out and the walk goes on
AddUnit_SkipsFailed(c, unit, table, required, attributes, field) ==
    IF WalkPanics(table, attributes) THEN Return(c, PanicResult)
    ELSE LET scratch == Walk(table, attributes, EmptyScratch(table))
             r == Construct(required, scratch, << >>)
             logged == Log(c, unit, scratch)
         IN  IF r.kind = "Err" THEN logged
             ELSE SetTop(logged, [Top(c) EXCEPT ![field] = Append(@, r.value)])

\* variant: the unit is put in front of the vector
AddUnit_PushesFront(c, unit, table, required, attributes, field) ==
    IF WalkPanics(table, attributes) THEN Return(c, PanicResult)
    ELSE LET scratch == Walk(table, attributes, EmptyScratch(table))
             r == Construct(required, scratch, << >>)
             logged == Log(c, unit, scratch)
         IN  IF r.kind = "Err" THEN Return(logged, r)
             ELSE SetTop(logged,
                         [Top(c) EXCEPT ![field] = << r.value >> \o @])

\* an element without a scope of its own: walk its attributes, build the
\* unit and push it onto the running function's vector
AddUnit(c, unit, table, required, attributes, field) ==
    IF WalkPanics(table, attributes) THEN Return(c, PanicResult)
    ELSE LET scratch == Walk(table, attributes, EmptyScratch(table))
             r == Construct(required, scratch, << >>)
             logged == Log(c, unit, scratch)
         IN  IF r.kind = "Err" THEN Return(logged, r)
             ELSE SetTop(logged, [Top(c) EXCEPT ![field] = Append(@, r.value)])

\* an element with a scope of its own: walk its attributes, then run its
\* loop with empty vectors for its children
OpenScope(c, fn, table, attributes, children) ==
    IF WalkPanics(table, attributes) THEN Return(c, PanicResult)
    ELSE Push(c, [fn |-> fn,
                  scratch |-> Walk(table, attributes, EmptyScratch(table))]
                 @@ children)

\* the loop of a scope has broken: build the unit from the scratch fields
\* and the children, return to the caller and push the unit onto its vector
CloseScope(c, unit, required, children, field) ==
    LET r == Construct(required, Top(c).scratch, children)
        logged == Log(c, unit, Top(c).scratch)
    IN  IF r.kind = "Err" THEN Return(logged, r)
        ELSE LET popped == [logged EXCEPT
                               !.stack = SubSeq(@, 1, Len(@) - 1)]
             IN  SetTop(popped,
                        [Top(popped) EXCEPT ![field] = Append(@, r.value)])

\* ------------------------------------------------------------------------
\* AgencyListBuilder::from_xml and RouteListBuilder::from_xml: one
\* iteration of `for event in parser`.  The iterator ends after it has
\* yielded EndDocument or an Err, and the function then returns Ok.
\* ------------------------------------------------------------------------

\* variant: the vector of agencies outlives the call (a static)
AgencyListFrame_KeepsLast ==
    [fn |-> "AgencyListBuilder::from_xml",
     agencies |-> IF decoded # << >>
                     /\ decoded[Len(decoded)].fn = "AgencyListBuilder::from_xml"
                     /\ decoded[Len(decoded)].out.kind = "Ok"
                  THEN decoded[Len(decoded)].out.value ELSE << >>]

AgencyListFrame == [fn |-> "AgencyListBuilder::from_xml", agencies |-> << >>]

AgencyListStep(c, ev) ==
    IF ev.type = "StartElement" /\ ev.name = "agency"
    THEN AddUnit(c, "Agency", AgencyAttrs, AgencyRequired, ev.attributes,
                 "agencies")
    ELSE IF ev.type \in {"EndDocument", "Err"}
    THEN Return(c, OkResult(Top(c).agencies))
    ELSE c

RouteListFrame == [fn |-> "RouteListBuilder::from_xml", routes |-> << >>]

RouteListStep(c, ev) ==
    IF ev.type = "StartElement" /\ ev.name = "route"
    THEN AddUnit(c, "RouteListRoute", RouteListRouteAttrs,
                 RouteListRouteRequired, ev.attributes, "routes")
    ELSE IF ev.type \in {"EndDocument", "Err"}
    THEN Return(c, OkResult(Top(c).routes))
    ELSE c

\* ------------------------------------------------------------------------
\* RouteConfigBuilder::from_xml and its helpers: one iteration of each
\* loop, up to its next parser.next()
\* ------------------------------------------------------------------------

RouteConfigFrame == [fn |-> "RouteConfigBuilder::from_xml", routes |-> << >>]

\* variant: the vectors of a route start from those of the route before
add_route_to_routes_KeepsChildren(c, attributes) ==
    OpenScope(c, "parse_route_elements", RouteAttrs, attributes,
              IF Top(c).routes = << >>
              THEN [stops |-> << >>, directions |-> << >>, paths |-> << >>]
              ELSE LET last == Top(c).routes[Len(Top(c).routes)]
                   IN  [stops |-> last.stops, directions |-> last.directions,
                        paths |-> last.paths])

\* the attribute walk of add_route_to_routes, then parse_route_elements
add_route_to_routes(c, attributes) ==
    OpenScope(c, "parse_route_elements", RouteAttrs, attributes,
              [stops |-> << >>, directions |-> << >>, paths |-> << >>])

RouteConfigStep(c, ev) ==
    CASE ev.type = "StartElement" ->
           IF ev.name = "body" THEN c
           ELSE IF ev.name = "route"
           THEN add_route_to_routes(c, ev.attributes)
           ELSE c
      [] ev.type = "EndDocument" -> Return(c, OkResult(Top(c).routes))
      [] ev.type = "Err" -> Return(c, OkResult(Top(c).routes))
      [] OTHER -> c

add_stop_to_stops(c, attributes) ==
    AddUnit(c, "Stop", StopAttrs, StopRequired, attributes, "stops")

\* the walk of parse_direction, then its loop
parse_direction(c, attributes) ==
    OpenScope(c, "parse_direction", DirectionAttrs, attributes,
              [stops |-> << >>])

\* parse_path walks no attributes of the path element itself
parse_path(c) ==
    Push(c, [fn |-> "parse_path", scratch |-> EmptyScratch(PathAttrs),
             points |-> << >>])

\* parse_route_elements has broken out of its loop: add_route_to_routes
\* pushes the Route
RouteScopeEnds(c) ==
    CloseScope(c, "Route", RouteRequired,
               [stops |-> Top(c).stops, directions |-> Top(c).directions,
                paths |-> Top(c).paths],
               "routes")

\* variant: a direction opens no scope of its own
RouteElementsStep_NoDirectionScope(c, ev) ==
    CASE ev.type = "StartElement" ->
           IF ev.name = "stop" THEN add_stop_to_stops(c, ev.attributes)
           ELSE IF ev.name = "direction" THEN c
           ELSE IF ev.name = "path" THEN parse_path(c)
           ELSE RouteScopeEnds(c)
      [] ev.type = "EndElement" ->
           IF ev.name = "route" THEN RouteScopeEnds(c) ELSE c
      [] ev.type = "Err" -> RouteScopeEnds(c)
      [] OTHER -> c

RouteElementsStep(c, ev) ==
    CASE ev.type = "StartElement" ->
           IF ev.name = "stop" THEN add_stop_to_stops(c, ev.attributes)
           ELSE IF ev.name = "direction"
           THEN parse_direction(c, ev.attributes)
           ELSE IF ev.name = "path" THEN parse_path(c)
           ELSE RouteScopeEnds(c)
      [] ev.type = "EndElement" ->
           IF ev.name = "route" THEN RouteScopeEnds(c) ELSE c
      [] ev.type = "Err" -> RouteScopeEnds(c)
      [] OTHER -> c

\* variant: the stop of a direction is pushed onto the stops of the route too
add_stop_to_direction_AlsoRoute(c, attributes) ==
    LET added == AddUnit(c, "StopStub", StopStubAttrs, StopStubRequired,
                         attributes, "stops")
    IN  IF added.out.kind # "None" THEN added
        ELSE [added EXCEPT !.stack[Len(added.stack) - 1].stops =
                 Append(@, Top(added).stops[Len(Top(added).stops)])]

add_stop_to_direction(c, attributes) ==
    AddUnit(c, "StopStub", StopStubAttrs, StopStubRequired, attributes,
            "stops")

DirectionScopeEnds(c) ==
    CloseScope(c, "Direction", DirectionRequired,
               [stops |-> Top(c).stops], "directions")

DirectionStep(c, ev) ==
    CASE ev.type = "StartElement" ->
           IF ev.name = "stop" THEN add_stop_to_direction(c, ev.attributes)
           ELSE c
      [] ev.type = "EndElement" ->
           IF ev.name = "direction" THEN DirectionScopeEnds(c) ELSE c
      [] ev.type = "Err" -> DirectionScopeEnds(c)
      [] OTHER -> c

add_point_to_path(c, attributes) ==
    AddUnit(c, "Point", PointAttrs, PointRequired, attributes, "points")

PathScopeEnds(c) ==
    CloseScope(c, "Path", PathRequired, [points |-> Top(c).points], "paths")

\* variant: the tag child of a path opens a scope of its own
PathStep_TagOpensScope(c, ev) ==
    CASE ev.type = "StartElement" ->
           IF ev.name = "tag" THEN parse_path(c)
           ELSE IF ev.name = "point"
           THEN add_point_to_path(c, ev.attributes)
           ELSE c
      [] ev.type = "EndElement" ->
           IF ev.name = "path" THEN PathScopeEnds(c) ELSE c
      [] ev.type = "Err" -> PathScopeEnds(c)
      [] OTHER -> c

\* variant: the first tag child of a path stays, later ones are skipped
PathStep_FirstTagWins(c, ev) ==
    CASE ev.type = "StartElement" ->
           IF ev.name = "tag"
           THEN IF Top(c).scratch.tag # None THEN c
                ELSE SetTop(c, [Top(c) EXCEPT
                        !.scratch = Walk(PathAttrs, ev.attributes, @)])
           ELSE IF ev.name = "point"
           THEN add_point_to_path(c, ev.attributes)
           ELSE c
      [] ev.type = "EndElement" ->
           IF ev.name = "path" THEN PathScopeEnds(c) ELSE c
      [] ev.type = "Err" -> PathScopeEnds(c)
      [] OTHER -> c

\* variant: the loop of parse_path reads on after a syntax error
PathStep_ReadsOnAfterError(c, ev) ==
    CASE ev.type = "StartElement" ->
           IF ev.name = "tag"
           THEN SetTop(c, [Top(c) EXCEPT
                   !.scratch = Walk(PathAttrs, ev.attributes, @)])
           ELSE IF ev.name = "point"
           THEN add_point_to_path(c, ev.attributes)
           ELSE c
      [] ev.type = "EndElement" ->
           IF ev.name = "path" THEN PathScopeEnds(c) ELSE c
      [] OTHER -> c

PathStep(c, ev) ==
    CASE ev.type = "StartElement" ->
           IF ev.name = "tag"
           THEN SetTop(c, [Top(c) EXCEPT
                   !.scratch = Walk(PathAttrs, ev.attributes, @)])
           ELSE IF ev.name = "point"
           THEN add_point_to_path(c, ev.attributes)
           ELSE c
      [] ev.type = "EndElement" ->
           IF ev.name = "path" THEN PathScopeEnds(c) ELSE c
      [] ev.type = "Err" -> PathScopeEnds(c)
      [] OTHER -> c

\* ------------------------------------------------------------------------
\* PredictionsBuilder::from_xml and its helpers
\* ------------------------------------------------------------------------

PredictionsFrame ==
    [fn |-> "PredictionsBuilder::from_xml",
     scratch |-> EmptyScratch(PredictionsAttrs),
     directions |-> << >>, messages |-> << >>]

\* the walk of add_direction_to_directions, then parse_prediction_elements
add_direction_to_directions(c, attributes) ==
    OpenScope(c, "parse_prediction_elements", PredictionDirectionAttrs,
              attributes, [predictions |-> << >>])

add_message_to_messages(c, attributes) ==
    AddUnit(c, "Message", MessageAttrs, MessageRequired, attributes,
            "messages")

\* the loop of from_xml has broken: Ok(Predictions { ... })
PredictionsEnds(c) ==
    Return(Log(c, "Predictions", Top(c).scratch),
           Construct(PredictionsRequired, Top(c).scratch,
                     [directions |-> Top(c).directions,
                      messages |-> Top(c).messages]))

PredictionsStep(c, ev) ==
    CASE ev.type = "StartElement" ->
           IF ev.name = "body" THEN c
           ELSE IF ev.name = "predictions"
           THEN SetTop(c, [Top(c) EXCEPT
                   !.scratch = Walk(PredictionsAttrs, ev.attributes, @)])
           ELSE IF ev.name = "direction"
           THEN add_direction_to_directions(c, ev.attributes)
           ELSE IF ev.name = "message"
           THEN add_message_to_messages(c, ev.attributes)
           ELSE c
      [] ev.type = "EndDocument" -> PredictionsEnds(c)
      [] ev.type = "Err" -> PredictionsEnds(c)
      [] OTHER -> c

add_prediction_to_predictions(c, attributes) ==
    AddUnit(c, "Prediction", PredictionAttrs, PredictionRequired,
            attributes, "predictions")

PredictionDirectionEnds(c) ==
    CloseScope(c, "PredictionDirection", PredictionDirectionRequired,
               [predictions |-> Top(c).predictions], "directions")

\* variant: the loop breaks on the end of any element
PredictionElementsStep_EndsOnAnyEnd(c, ev) ==
    CASE ev.type = "StartElement" ->
           IF ev.name = "prediction"
           THEN add_prediction_to_predictions(c, ev.attributes)
           ELSE c
      [] ev.type = "EndElement" -> PredictionDirectionEnds(c)
      [] ev.type = "Err" -> PredictionDirectionEnds(c)
      [] OTHER -> c

PredictionElementsStep(c, ev) ==
    CASE ev.type = "StartElement" ->
           IF ev.name = "prediction"
           THEN add_prediction_to_predictions(c, ev.attributes)
           ELSE c
      [] ev.type = "EndElement" ->
           IF ev.name = "direction" THEN PredictionDirectionEnds(c) ELSE c
      [] ev.type = "Err" -> PredictionDirectionEnds(c)
      [] OTHER -> c

\* the loop iteration of whichever function is running
DecodeStep(c, ev) ==
    LET fn == Top(c).fn
    IN CASE fn = "AgencyListBuilder::from_xml" -> AgencyListStep(c, ev)
         [] fn = "RouteListBuilder::from_xml" -> RouteListStep(c, ev)
         [] fn = "RouteConfigBuilder::from_xml" -> RouteConfigStep(c, ev)
         [] fn = "parse_route_elements" -> RouteElementsStep(c, ev)
         [] fn = "parse_direction" -> DirectionStep(c, ev)
         [] fn = "parse_path" -> PathStep(c, ev)
         [] fn = "PredictionsBuilder::from_xml" -> PredictionsStep(c, ev)
         [] fn = "parse_prediction_elements" ->
                PredictionElementsStep(c, ev)

\* from_xml(input) for the command's decoder, before its first event
FromXml(kind) ==
    [stack |-> << CASE kind = "AgencyList" -> AgencyListFrame
                    [] kind = "RouteList" -> RouteListFrame
                    [] kind = "RouteConfig" -> RouteConfigFrame
                    [] kind = "Predictions" -> PredictionsFrame >>,
     out |-> NoResult,
     finalized |-> << >>]

\* most times the last event of a stream is read again after its first read
MaxReread == 3

\* from_xml run to its return on the stream d, n events read so far
RECURSIVE Run(_, _, _)
Run(c, d, n) ==
    IF c.out.kind # "None" \/ n >= Len(d) + MaxReread THEN c.out
    ELSE Run(DecodeStep(c, EventAt(d, n)), d, n + 1)

Decode(kind, d) == Run(FromXml(kind), d, 0)

\* ------------------------------------------------------------------------
\* The responses the transport hands to a decoder: event streams of
\* well-formed documents of each command's shape, and the same streams with
\* one attribute dropped, one unknown attribute added, one numeric or
\* boolean value malformed, an element of an unknown name put in, or a
\* syntax error in place of their tail.
\* ------------------------------------------------------------------------

\* most children of one kind under one parent (agencies, routes, stops,
\* stop references, points, directions, predictions, messages)
MaxChildren == 2

Name(prefix, i) == prefix \o usize_to_string(i)

RECURSIVE Flatten(_)
Flatten(ss) == IF ss = << >> THEN << >> ELSE Head(ss) \o Flatten(Tail(ss))

Element(name, attributes) ==
    << StartElement(name, attributes), EndElement(name) >>

Nested(name, attributes, inner) ==
    << StartElement(name, attributes) >> \o inner \o << EndElement(name) >>

Document(inner) ==
    << OtherEvent >>
        \o Nested("body", << << "copyright", "NextBus Inc 2016." >> >>, inner)
        \o << EndDocument >>

\* <agency tag= title= [shortTitle=] regionTitle=/>
AgencyElement(i, short) ==
    Element("agency",
        << << "tag", Name("agency-", i) >>,
           << "title", Name("Agency ", i) >> >>
        \o (IF short THEN << << "shortTitle", Name("Ag ", i) >> >>
            ELSE << >>)
        \o << << "regionTitle", Name("Region ", i) >> >>)

AgencyListDocs ==
    { Document(Flatten([i \in 1..Len(short) |->
                           AgencyElement(i, short[i])])) :
        short \in SeqsUpTo(BOOLEAN, MaxChildren) }

\* <route tag= title= [shortTitle=]/>
RouteListElement(i, short) ==
    Element("route",
        << << "tag", Name("route-", i) >>,
           << "title", Name("Route ", i) >> >>
        \o (IF short THEN << << "shortTitle", Name("Rt ", i) >> >>
            ELSE << >>))

RouteListDocs ==
    { Document(Flatten([i \in 1..Len(short) |->
                           RouteListElement(i, short[i])])) :
        short \in SeqsUpTo(BOOLEAN, MaxChildren) }

\* <stop tag= title= lat= lon= [stopId=]/> directly under a route
StopElement(j) ==
    Element("stop",
        << << "tag", Name("stop-", j) >>,
           << "title", Name("Stop ", j) >>,
           << "lat", "42.35" >>,
           << "lon", "-71.09" >> >>
        \o (IF j % 2 = 1 THEN << << "stopId", Name("0", j) >> >> ELSE << >>))

\* <direction tag= title= name= useForUI=> <stop tag=/>... </direction>
DirectionElement(refs) ==
    Nested("direction",
        << << "tag", "outbound" >>,
           << "title", "Outbound" >>,
           << "name", "Out" >>,
           << "useForUI", "true" >> >>,
        Flatten([j \in 1..refs |->
                    Element("stop", << << "tag", Name("stop-", j) >> >>)]))

\* <path> <tag id=/> <point lat= lon=/>... </path>
PathElement(points) ==
    Nested("path", << >>,
        Element("tag", << << "id", "path-1" >> >>)
        \o Flatten([j \in 1..points |->
                       Element("point",
                           << << "lat", IF j % 2 = 1 THEN "42.35"
                                        ELSE "42.36" >>,
                              << "lon", IF j % 2 = 1 THEN "-71.09"
                                        ELSE "-71.1" >> >>)]))

\* a route with its stops, then (direction) a direction referring to all
\* of them in order, then (path) a path of as many points
RouteShapes == [stops : 0..MaxChildren, direction : BOOLEAN, path : BOOLEAN]

\* <route tag= title= color= oppositeColor= latMin= ...> children </route>
RouteWith(i, inner) ==
    Nested("route",
        << << "tag", Name("route-", i) >>,
           << "title", Name("Route ", i) >>,
           << "color", "ff0000" >>,
           << "oppositeColor", "ffffff" >>,
           << "latMin", "42.35" >>,
           << "latMax", "42.36" >>,
           << "lonMin", "-71.1" >>,
           << "lonMax", "-71.09" >> >>,
        inner)

RouteElement(i, shape) ==
    RouteWith(i,
        Flatten([j \in 1..shape.stops |-> StopElement(j)])
        \o (IF shape.direction THEN DirectionElement(shape.stops) ELSE << >>)
        \o (IF shape.path THEN PathElement(shape.stops) ELSE << >>))

\* no route, one route of any shape, or a full route after a first route
\* with one stop, a direction over it and a one-point path
RouteConfigDocs ==
    { Document(<< >>) }
    \cup { Document(RouteElement(1, sh)) : sh \in RouteShapes }
    \cup { Document(RouteElement(1, [stops |-> 1, direction |-> TRUE,
                                     path |-> TRUE])
                    \o RouteElement(2, [stops |-> n, direction |-> TRUE,
                                        path |-> TRUE])) :
             n \in 1..MaxChildren }

ChildKinds == {"stop", "direction", "path"}

\* the p-th child of a route, of the given kind; a direction refers to
\* and a path holds p stops or points, none when p exceeds MaxChildren
Child(kind, p) ==
    CASE kind = "stop" -> StopElement(p)
      [] kind = "direction" -> DirectionElement(p % (MaxChildren + 1))
      [] kind = "path" -> PathElement(p % (MaxChildren + 1))

Children(kinds) == Flatten([p \in 1..Len(kinds) |-> Child(kinds[p], p)])

\* routes whose stop, direction and path children come in any order: one
\* route of up to MaxChildren + 1 children, or two of fewer than MaxChildren
InterleavedRouteDocs ==
    { Document(RouteWith(1, Children(ks))) :
        ks \in SeqsUpTo(ChildKinds, MaxChildren + 1) }
    \cup { Document(RouteWith(1, Children(k1)) \o RouteWith(2, Children(k2))) :
             k1 \in SeqsUpTo(ChildKinds, MaxChildren - 1),
             k2 \in SeqsUpTo(ChildKinds, MaxChildren - 1) }

\* <prediction .../>: every second one carries the optional attributes
PredictionElement(j) ==
    Element("prediction",
        << << "epochTime", Name("5", j) >>,
           << "seconds", Name("4", j) >>,
           << "minutes", "0" >>,
           << "isDeparture", "false" >> >>
        \o (IF j % 2 = 1
            THEN << << "affectedByLayover", "true" >>,
                    << "isScheduleBased", "true" >>,
                    << "delayed", "false" >>,
                    << "branch", "A" >>,
                    << "tripTag", Name("trip-", j) >> >>
            ELSE << >>)
        \o << << "dirTag", "outbound" >>,
              << "vehicle", Name("10", j) >>,
              << "block", Name("b", j) >> >>)

PredictionDirectionElement(d, n) ==
    Nested("direction", << << "title", Name("Direction ", d) >> >>,
        Flatten([j \in 1..n |-> PredictionElement(j)]))

MessageElement(m) ==
    Element("message",
        << << "text", Name("Detour ", m) >> >>
        \o (IF m % 2 = 1 THEN << << "priority", "Normal" >> >> ELSE << >>))

\* directions d = 1..directions, the d-th holding predictions - (d - 1)
\* predictions (none below zero), then the messages
PredictionsShapes ==
    [directions : 0..MaxChildren, predictions : 0..MaxChildren,
     messages : 0..MaxChildren]

PredictionsElement(shape) ==
    Nested("predictions",
        << << "agencyTitle", "MIT" >>,
           << "routeTitle", "Saferide" >>,
           << "routeTag", "saferide" >>,
           << "stopTitle", "84 Mass Ave" >>,
           << "stopTag", "mass84_d" >> >>,
        Flatten([d \in 1..shape.directions |->
                    PredictionDirectionElement(d,
                        IF shape.predictions >= d - 1
                        THEN shape.predictions - (d - 1) ELSE 0)])
        \o Flatten([m \in 1..shape.messages |-> MessageElement(m)]))

\* a body without a predictions element (empty, or a direction and a
\* message on their own), or with one of any shape
PredictionsDocs ==
    { Document(<< >>) }
    \cup { Document(PredictionDirectionElement(1, n) \o MessageElement(1)) :
             n \in 0..MaxChildren }
    \cup { Document(PredictionsElement(sh)) : sh \in PredictionsShapes }

\* the attributes whose values some decoder parses as a number or a boolean
NumericAttributes ==
    {"latMin", "latMax", "lonMin", "lonMax", "useForUI", "lat", "lon",
     "seconds", "minutes", "epochTime", "isDeparture", "affectedByLayover",
     "isScheduleBased", "delayed"}

Without(seq, k) == SubSeq(seq, 1, k - 1) \o SubSeq(seq, k + 1, Len(seq))

StartEvents(d) == { j \in 1..Len(d) : d[j].type = "StartElement" }

\* the k-th attribute of the j-th event left out
DropAttribute(d, j, k) ==
    [d EXCEPT ![j].attributes = Without(@, k)]

\* an attribute no decoder knows put first in the j-th event
AddAttribute(d, j) ==
    [d EXCEPT ![j].attributes = << << "extra", "extra" >> >> \o @]

\* the value of the k-th attribute of the j-th event made no numeral
Malform(d, j, k) ==
    [d EXCEPT ![j].attributes[k] = << @[1], "4x2" >>]

\* the stream reports a syntax error instead of its j-th event
SyntaxErrorAt(d, j) == SubSeq(d, 1, j - 1) \o << ErrEvent >>

\* an element of a name no decoder knows put before the j-th event
\* <path> <tag id=/>... <point/>... <tag id=/>... </path>: tag children
\* with these ids before and after one point
PathWithTags(before, after) ==
    Nested("path", << >>,
        Flatten([k \in 1..Len(before) |->
                    Element("tag", << << "id", before[k] >> >>)])
        \o Element("point", << << "lat", "42.35" >>, << "lon", "-71.09" >> >>)
        \o Flatten([k \in 1..Len(after) |->
                       Element("tag", << << "id", after[k] >> >>)]))

PathIds == {"path-1", "path-2"}

\* one route with one path of no, one or several tag children
PathTagDocs ==
    { Document(RouteWith(1, PathWithTags(before, after))) :
        before \in SeqsUpTo(PathIds, MaxChildren),
        after \in SeqsUpTo(PathIds, 1) }

InsertElement(d, j) ==
    SubSeq(d, 1, j - 1) \o Element("unknown", << >>) \o SubSeq(d, j, Len(d))

Defective(d) ==
    UNION { { DropAttribute(d, j, k) : k \in 1..Len(d[j].attributes) } :
              j \in StartEvents(d) }
    \cup { AddAttribute(d, j) : j \in StartEvents(d) }
    \cup UNION { { Malform(d, j, k) :
                     k \in { x \in 1..Len(d[j].attributes) :
                               d[j].attributes[x][1] \in NumericAttributes } } :
                   j \in StartEvents(d) }
    \cup { SyntaxErrorAt(d, j) : j \in 2..Len(d) }
    \cup { InsertElement(d, j) : j \in 3..(Len(d) - 1) }

WellFormed(kind) ==
    CASE kind = "AgencyList" -> AgencyListDocs
      [] kind = "RouteList" -> RouteListDocs
      [] kind = "RouteConfig" -> RouteConfigDocs
      [] kind = "Predictions" -> PredictionsDocs

\* every response a decoder of this kind is run on
Responses(kind) ==
    WellFormed(kind)
    \cup UNION { Defective(d) : d \in WellFormed(kind) }
    \cup (IF kind = "RouteConfig"
              THEN InterleavedRouteDocs \cup PathTagDocs ELSE {})

\* ------------------------------------------------------------------------
\* The per-command builders and get(): the required-field checks, the
\* Request it assembles and sends, then from_xml on the response, one
\* loop iteration at a time
\* ------------------------------------------------------------------------

BuilderKinds == {"AgencyList", "RouteList", "RouteConfig", "Predictions"}

BuilderAgencies == {"mbta"}

BuilderRoutes == {"one"}

BuilderStops == {"stop_1"}

\* AgencyListBuilder::new, RouteListBuilder::new, RouteConfigBuilder::new,
\* PredictionsBuilder::new
NewBuilder ==
    /\ pc = "idle"
    /\ builder.kind = "None"
    /\ \E k \in BuilderKinds :
           builder' = [kind |-> k, agency |-> None, route |-> None,
                       stop |-> None]
    /\ UNCHANGED << reqvars, gets, pc, stages, out, doc, pos, stack,
                    finalized, decoded >>

BuilderAgency ==
    /\ pc = "idle"
    /\ builder.kind \in {"RouteList", "RouteConfig", "Predictions"}
    /\ \E a \in BuilderAgencies : builder' = [builder EXCEPT !.agency = Some(a)]
    /\ UNCHANGED << reqvars, gets, pc, stages, out, doc, pos, stack,
                    finalized, decoded >>

BuilderRoute ==
    /\ pc = "idle"
    /\ builder.kind \in {"RouteConfig", "Predictions"}
    /\ \E r \in BuilderRoutes : builder' = [builder EXCEPT !.route = Some(r)]
    /\ UNCHANGED << reqvars, gets, pc, stages, out, doc, pos, stack,
                    finalized, decoded >>

BuilderStop ==
    /\ pc = "idle"
    /\ builder.kind = "Predictions"
    /\ \E s \in BuilderStops : builder' = [builder EXCEPT !.stop = Some(s)]
    /\ UNCHANGED << reqvars, gets, pc, stages, out, doc, pos, stack,
                    finalized, decoded >>

\* variant: PredictionsBuilder::get does not check its route
BuilderRequired_RouteUnchecked(kind) ==
    CASE kind = "AgencyList" -> {}
      [] kind = "RouteList" -> {"agency"}
      [] kind = "RouteConfig" -> {"agency"}
      [] kind = "Predictions" -> {"agency", "stop"}

\* the fields get() takes through try!(x.ok_or(Error::BuildCommandError))
BuilderRequired(kind) ==
    CASE kind = "AgencyList" -> {}
      [] kind = "RouteList" -> {"agency"}
      [] kind = "RouteConfig" -> {"agency"}
      [] kind = "Predictions" -> {"agency", "route", "stop"}

\* variant: PredictionsBuilder::get leaves out .stop(stop)
GetRequest_DropsStop(b) ==
    [command |-> Some(b.kind),
     agency |-> IF b.kind = "AgencyList" THEN None ELSE b.agency,
     routes |-> IF b.kind \in {"RouteConfig", "Predictions"}
                   /\ is_some(b.route)
                THEN Some(<< unwrap(b.route) >>) ELSE None,
     stops |-> None,
     time |-> None]

\* Request::new().command(..)[.agency(..)][.route(..)][.stop(..)]
GetRequest(b) ==
    [command |-> Some(b.kind),
     agency |-> IF b.kind = "AgencyList" THEN None ELSE b.agency,
     routes |-> IF b.kind \in {"RouteConfig", "Predictions"}
                   /\ is_some(b.route)
                THEN Some(<< unwrap(b.route) >>) ELSE None,
     stops |-> IF b.kind = "Predictions" THEN Some(<< unwrap(b.stop) >>)
               ELSE None,
     time |-> None]

\* what a stage of get() came to
Stage(name, r) == [stage |-> name, kind |-> r.kind, err |-> r.err]

\* the stages of send that ran: validate, and the GET if it was issued
SendStages(self, r) ==
    << Stage("validate", validate(self, "send")) >>
    \o (IF r.issued = 1 THEN << Stage("transport", r.ret) >> ELSE << >>)

\* variant: from_xml is run on whatever send came to, its error dropped
GetEnters_IgnoresSendError(r) == TRUE

\* try!(Request::new()....send()): from_xml runs on an Ok only
GetEnters(r) == r.ret.kind = "Ok"

\* get() up to its call of from_xml
Get ==
    /\ pc = "idle"
    /\ builder.kind \in BuilderKinds
    /\ gets < MaxGets
    /\ IF \E f \in BuilderRequired(builder.kind) : builder[f] = None
       THEN /\ out' = ErrResult("BuildCommandError")
            /\ pc' = "done"
            /\ UNCHANGED << reqvars, gets, stages, doc, pos, stack,
                            finalized >>
       ELSE \E outcome \in TransportOutcomes :
              LET self == GetRequest(builder)
                  r == SendResult(self, outcome)
              IN  /\ command' = self.command
                  /\ agency' = self.agency
                  /\ routes' = self.routes
                  /\ stops' = self.stops
                  /\ time' = self.time
                  /\ ret' = r.ret
                  /\ arg' = << >>
                  /\ gets' = gets + r.issued
                  /\ stages' = SendStages(self, r)
                  /\ pos' = 0
                  /\ finalized' = << >>
                  /\ IF GetEnters(r)
                     THEN /\ \E d \in Responses(builder.kind) : doc' = d
                          /\ stack' = FromXml(builder.kind).stack
                          /\ pc' = "decode"
                          /\ out' = NoResult
                     ELSE /\ out' = ErrResult(r.ret.err)
                          /\ pc' = "done"
                          /\ UNCHANGED << doc, stack >>
    /\ UNCHANGED << builder, decoded >>

\* the decoder as it stands between two reads of the parser
Config == [stack |-> stack, out |-> NoResult, finalized |-> finalized]

\* the function fn is about to read the next event
Running(fn) ==
    /\ pc = "decode"
    /\ stack # << >>
    /\ stack[Len(stack)].fn = fn
    /\ pos < Len(doc) + MaxReread

\* the iteration has left the decoder as c: either it reads on, or
\* from_xml has returned and with it get()
Iterated(c) ==
    /\ stack' = c.stack
    /\ finalized' = c.finalized
    /\ pos' = pos + 1
    /\ IF c.out.kind = "None"
       THEN UNCHANGED << pc, out, stages, decoded >>
       ELSE /\ pc' = "done"
            /\ out' = c.out
            /\ stages' = Append(stages, Stage("decode", c.out))
            /\ decoded' = Append(decoded, [fn |-> stack[1].fn, doc |-> doc,
                                           out |-> c.out])
    /\ UNCHANGED << reqvars, gets, builder, doc >>

AgencyListLoop ==
    /\ Running("AgencyListBuilder::from_xml")
    /\ Iterated(AgencyListStep(Config, EventAt(doc, pos)))

RouteListLoop ==
    /\ Running("RouteListBuilder::from_xml")
    /\ Iterated(RouteListStep(Config, EventAt(doc, pos)))

RouteConfigLoop ==
    /\ Running("RouteConfigBuilder::from_xml")
    /\ Iterated(RouteConfigStep(Config, EventAt(doc, pos)))

RouteElementsLoop ==
    /\ Running("parse_route_elements")
    /\ Iterated(RouteElementsStep(Config, EventAt(doc, pos)))

DirectionLoop ==
    /\ Running("parse_direction")
    /\ Iterated(DirectionStep(Config, EventAt(doc, pos)))

PathLoop ==
    /\ Running("parse_path")
    /\ Iterated(PathStep(Config, EventAt(doc, pos)))

PredictionsLoop ==
    /\ Running("PredictionsBuilder::from_xml")
    /\ Iterated(PredictionsStep(Config, EventAt(doc, pos)))

PredictionElementsLoop ==
    /\ Running("parse_prediction_elements")
    /\ Iterated(PredictionElementsStep(Config, EventAt(doc, pos)))

GetNext ==
    \/ NewBuilder
    \/ BuilderAgency
    \/ BuilderRoute
    \/ BuilderStop
    \/ Get
    \/ AgencyListLoop
    \/ RouteListLoop
    \/ RouteConfigLoop
    \/ RouteElementsLoop
    \/ DirectionLoop
    \/ PathLoop
    \/ PredictionsLoop
    \/ PredictionElementsLoop

GetSpec == Init /\ [][GetNext]_vars

\* ------------------------------------------------------------------------
\* from_xml called on its own, one stream after another, as the unit tests
\* of the decoders call it
\* ------------------------------------------------------------------------

\* most calls of from_xml in one run
MaxDecodes == 3

\* a full document of the kind, and the same with the first attribute of
\* its first element left out
RedecodeDocs(kind) ==
    LET full ==
          CASE kind = "AgencyList" -> Document(AgencyElement(1, TRUE))
            [] kind = "RouteList" -> Document(RouteListElement(1, TRUE))
            [] kind = "RouteConfig" ->
                 Document(RouteElement(1, [stops |-> 1, direction |-> TRUE,
                                           path |-> TRUE]))
            [] kind = "Predictions" ->
                 Document(PredictionsElement([directions |-> 1,
                                              predictions |-> 1,
                                              messages |-> 1]))
    IN  {full, DropAttribute(full, 3, 1)}

\* Self::from_xml(input): a new EventReader and new, empty vectors
FromXmlCall ==
    /\ pc \in {"idle", "done"}
    /\ Len(decoded) < MaxDecodes
    /\ \E k \in BuilderKinds :
         /\ \E d \in RedecodeDocs(k) : doc' = d
         /\ stack' = FromXml(k).stack
    /\ pos' = 0
    /\ finalized' = << >>
    /\ out' = NoResult
    /\ stages' = << >>
    /\ pc' = "decode"
    /\ UNCHANGED << reqvars, gets, builder, decoded >>

RedecodeNext ==
    \/ FromXmlCall
    \/ AgencyListLoop
    \/ RouteListLoop
    \/ RouteConfigLoop
    \/ RouteElementsLoop
    \/ DirectionLoop
    \/ PathLoop
    \/ PredictionsLoop
    \/ PredictionElementsLoop

RedecodeSpec == Init /\ [][RedecodeNext]_vars

\* the function that holds the parser reads the next event: what every
\* iteration of the eight loops does, and what one of them can do whenever
\* a decoder is running
ReadsOn ==
    /\ pc = "decode"
    /\ stack # << >>
    /\ pos < Len(doc) + MaxReread
    /\ pos' = pos + 1

\* get() is one synchronous call on one thread: a loop that can read the
\* next event does read it
GetLiveSpec == GetSpec /\ WF_pos(ReadsOn)

\* ------------------------------------------------------------------------
\* The rule table of the command validator, as the specification states it
\* (section 4.1), and the wire names the tests of request.rs expect
\* ------------------------------------------------------------------------

Params == {"agency", "routes", "stops", "time"}

Rule(c) ==
    CASE c = "AgencyList" ->
           [agency |-> "forbidden", routes |-> "forbidden",
            stops |-> "forbidden", time |-> "forbidden"]
      [] c = "RouteList" ->
           [agency |-> "required", routes |-> "forbidden",
            stops |-> "forbidden", time |-> "forbidden"]
      [] c = "RouteConfig" ->
           [agency |-> "required", routes |-> "optional",
            stops |-> "forbidden", time |-> "forbidden"]
      [] c = "Predictions" ->
           [agency |-> "required", routes |-> "required",
            stops |-> "required", time |-> "forbidden"]
      [] c = "PredictionsForMultiStops" ->
           [agency |-> "required", routes |-> "forbidden",
            stops |-> "required", time |-> "forbidden"]
      [] c = "Schedule" ->
           [agency |-> "required", routes |-> "required",
            stops |-> "forbidden", time |-> "forbidden"]
      [] c = "Messages" ->
           [agency |-> "required", routes |-> "required",
            stops |-> "forbidden", time |-> "forbidden"]
      [] c = "VehicleLocations" ->
           [agency |-> "required", routes |-> "required",
            stops |-> "forbidden", time |-> "required"]

Arity(c) ==
    CASE c = "RouteConfig" -> [routes |-> "at_most_one", stops |-> "any"]
      [] c = "Predictions" -> [routes |-> "exactly_one", stops |-> "exactly_one"]
      [] c = "PredictionsForMultiStops" -> [routes |-> "any", stops |-> "non_empty"]
      [] c = "Schedule" -> [routes |-> "exactly_one", stops |-> "any"]
      [] c = "Messages" -> [routes |-> "non_empty", stops |-> "any"]
      [] c = "VehicleLocations" -> [routes |-> "exactly_one", stops |-> "any"]
      [] OTHER -> [routes |-> "any", stops |-> "any"]

IsSet(self, p) == self[p] # None

ArityOk(self, c, p) ==
    IF p \in {"routes", "stops"} /\ IsSet(self, p)
    THEN LET n == Len(unwrap(self[p]))
             a == Arity(c)[p]
         IN CASE a = "exactly_one" -> n = 1
              [] a = "at_most_one" -> n <= 1
              [] a = "non_empty" -> n >= 1
              [] a = "any" -> TRUE
    ELSE TRUE

ForbiddenParams(c) == { p \in Params : Rule(c)[p] = "forbidden" }

RequiredParams(c) == { p \in Params : Rule(c)[p] = "required" }

TableSatisfied(self) ==
    /\ is_some(self.command)
    /\ LET c == unwrap(self.command)
       IN  /\ \A p \in ForbiddenParams(c) : ~IsSet(self, p)
           /\ \A p \in RequiredParams(c) : IsSet(self, p)
           /\ \A p \in Params : ArityOk(self, c, p)

WireName(c) ==
    CASE c = "AgencyList" -> "agencyList"
      [] c = "RouteList" -> "routeList"
      [] c = "RouteConfig" -> "routeConfig"
      [] c = "Predictions" -> "predictions"
      [] c = "PredictionsForMultiStops" -> "predictionsForMultiStops"
      [] c = "Schedule" -> "schedule"
      [] c = "Messages" -> "messages"
      [] c = "VehicleLocations" -> "vehicleLocations"

\* the last call was get_url, so ret is validate's result for the Request
Validated == ret.op = "get_url"

Failed == ret.kind = "Err"

Succeeded == ret.kind = "Ok"

CommandIs(c) == command = Some(c)

ListLen(o) == IF is_some(o) THEN Len(unwrap(o)) ELSE 0

\* ------------------------------------------------------------------------
\* Claims about Request::validate
\* ------------------------------------------------------------------------

\* C1: validate on a Request whose command is unset fails, and every
\* validation failure is the one error kind BuildUrlError.
C1_UnsetCommandFailsUniformly ==
    Validated =>
        /\ (command = None => ret = RetErr("get_url", "BuildUrlError"))
        /\ (Failed => ret.err = "BuildUrlError")

C1_Witness ==
    Validated /\ command = None /\ is_some(agency) /\ Failed

\* C2: for every command, if any parameter the rule table marks forbidden
\* for it is set, validate fails.
C2_ForbiddenSetFails ==
    (Validated /\ is_some(command) /\
     \E p \in ForbiddenParams(unwrap(command)) : IsSet(Request, p))
        => Failed

\* stops is the only violation of the RouteConfig row
C2_Witness ==
    /\ Validated /\ CommandIs("RouteConfig") /\ Failed
    /\ is_some(agency) /\ routes = None /\ is_some(stops) /\ time = None

\* C3: for every command, if any parameter the rule table marks required
\* for it is unset, validate fails.
C3_RequiredUnsetFails ==
    (Validated /\ is_some(command) /\
     \E p \in RequiredParams(unwrap(command)) : ~IsSet(Request, p))
        => Failed

\* time is the only violation of the VehicleLocations row
C3_Witness ==
    /\ Validated /\ CommandIs("VehicleLocations") /\ Failed
    /\ is_some(agency) /\ ListLen(routes) = 1 /\ stops = None /\ time = None

\* C4: for Predictions, Schedule and VehicleLocations validate fails
\* whenever the route list does not hold exactly one route, and for
\* Predictions also whenever the stop list does not hold exactly one stop.
C4_ExactlyOneOrFail ==
    Validated =>
        /\ ((\E c \in {"Predictions", "Schedule", "VehicleLocations"} :
                CommandIs(c)) /\ ListLen(routes) # 1 => Failed)
        /\ (CommandIs("Predictions") /\ ListLen(stops) # 1 => Failed)

\* an empty route list is the only violation of the Schedule row
C4_Witness ==
    /\ Validated /\ CommandIs("Schedule") /\ Failed
    /\ is_some(agency) /\ routes = Some(<< >>) /\ stops = None /\ time = None

\* C5: for PredictionsForMultiStops validate fails when the stop list is
\* set but empty; it succeeds only with agency set, routes and time unset
\* and at least one stop.
C5_EmptyStopListFails ==
    (Validated /\ CommandIs("PredictionsForMultiStops")) =>
        /\ (stops = Some(<< >>) => Failed)
        /\ (Succeeded => /\ is_some(agency) /\ routes = None /\ time = None
                         /\ ListLen(stops) >= 1)

\* C6: for Messages validate fails when the route list is set but empty;
\* it succeeds only with agency set, stops and time unset and at least one
\* route.
C6_MessagesNeedsARoute ==
    (Validated /\ CommandIs("Messages")) =>
        /\ (routes = Some(<< >>) => Failed)
        /\ (Succeeded => /\ is_some(agency) /\ stops = None /\ time = None
                         /\ ListLen(routes) >= 1)

C6_Witness ==
    /\ Validated /\ CommandIs("Messages") /\ Failed
    /\ is_some(agency) /\ routes = Some(<< >>) /\ stops = None /\ time = None

\* C7: for RouteConfig with agency set and stops and time unset, validate
\* succeeds when routes is unset or holds at most one route, and fails
\* when it holds two or more routes.
C7_RouteConfigAtMostOneRoute ==
    (Validated /\ CommandIs("RouteConfig") /\
     is_some(agency) /\ stops = None /\ time = None) =>
        /\ (ListLen(routes) <= 1 => Succeeded)
        /\ (ListLen(routes) >= 2 => Failed)

C7_Witness ==
    /\ Validated /\ CommandIs("RouteConfig") /\ Failed
    /\ is_some(agency) /\ stops = None /\ time = None /\ ListLen(routes) = 2

\* C8: every Request that satisfies its command's row of the rule table is
\* accepted by validate.
C8_TableSatisfiedIsAccepted ==
    (Validated /\ TableSatisfied(Request)) => Succeeded

C8_Witness ==
    /\ Validated /\ TableSatisfied(Request) /\ Succeeded
    /\ CommandIs("Messages") /\ ListLen(routes) = 2

\* C9: on every successful validate the query pairs are the command pair
\* (with the command's wire name), then the a pair if agency is set, then
\* one r pair per route in the order supplied, then one stop pair per stop
\* in the order supplied, then the t pair last if time is set.
C9_QueryOrder ==
    (Validated /\ Succeeded) =>
        LET q == ret.url.query
            na == IF is_some(agency) THEN 1 ELSE 0
            nr == ListLen(routes)
            ns == ListLen(stops)
            nt == IF is_some(time) THEN 1 ELSE 0
        IN  /\ Len(q) = 1 + na + nr + ns + nt
            /\ q[1] = << "command", WireName(unwrap(command)) >>
            /\ (na = 1 => q[2] = << "a", unwrap(agency) >>)
            /\ \A i \in 1..nr : q[1 + na + i] = << "r", unwrap(routes)[i] >>
            /\ \A i \in 1..ns :
                   /\ q[1 + na + nr + i][1] \in {"s", "stops"}
                   /\ q[1 + na + nr + i][2] = unwrap(stops)[i]
            /\ (nt = 1 =>
                   q[Len(q)] = << "t", usize_to_string(unwrap(time)) >>)

\* a route pair and the time pair in one query
C9_Witness ==
    /\ Validated /\ Succeeded /\ CommandIs("VehicleLocations")
    /\ routes = Some(<< "one" >>) /\ time = Some(12)
    /\ ret.url.query[4] = << "t", "12" >>

\* C10: every emitted stop pair is named s when the command is Predictions
\* and stops for every other command; the two names never appear together
\* in one query.
C10_StopParamName ==
    (Validated /\ Succeeded) =>
        LET q == ret.url.query
            first == 1 + Len(q) - ListLen(stops) - (IF is_some(time) THEN 1 ELSE 0)
            names == { q[i][1] : i \in 1..Len(q) }
        IN  /\ \A i \in first..(first + ListLen(stops) - 1) :
                   q[i][1] = IF CommandIs("Predictions") THEN "s" ELSE "stops"
            /\ ~({"s", "stops"} \subseteq names)

C10_Witness ==
    /\ Validated /\ Succeeded /\ CommandIs("Predictions")
    /\ stops = Some(<< "stop_2" >>)
    /\ \E i \in 1..Len(ret.url.query) : ret.url.query[i] = << "s", "stop_2" >>

\* C11: validate is a pure function: a get_url call leaves command, agency,
\* routes, stops and time unchanged whether it succeeds or fails, and a
\* second get_url on the same Request returns what the first returned.
C11_ValidateIsPure ==
    [][ret'.op = "get_url" =>
           /\ UNCHANGED << command, agency, routes, stops, time >>
           /\ (ret.op = "get_url" => ret' = ret)]_vars

C11_Witness ==
    /\ Validated /\ Succeeded /\ CommandIs("Predictions")
    /\ agency = Some("mbta") /\ routes = Some(<< "two" >>)
    /\ stops = Some(<< "stop_1" >>)

\* ------------------------------------------------------------------------
\* Claims about Request::send
\* ------------------------------------------------------------------------

Sent == ret.op = "send"

\* C12: in send the GET is issued only after validate has succeeded: a
\* Request that fails validation triggers no GET and send returns the
\* validation failure.
C12_NoGetWithoutValidRequest ==
    [][(ret'.op = "send" /\ validate(Request, "get_url").kind = "Err")
           => /\ gets' = gets
              /\ ret'.kind = "Err"
              /\ ret'.err = validate(Request, "get_url").err]_vars

C12_Witness ==
    /\ Sent /\ Failed /\ ret.err = "BuildUrlError" /\ gets = 0
    /\ CommandIs("Schedule") /\ is_some(agency) /\ routes = None

\* ------------------------------------------------------------------------
\* The per-command get() and the decoders
\* ------------------------------------------------------------------------

StageOrder == << "validate", "transport", "decode" >>

Done == pc = "done"

Returned == Done /\ out.kind \in {"Ok", "Err"}

\* C13: a get() runs validate, transport, decode in this order, a stage
\* only after every earlier one succeeded; what it returns is the decoded
\* aggregate once all three succeeded, and otherwise the error of the one
\* stage that failed; after a transport failure the decoder has not read a
\* single event.
C13_StagesInOrder ==
    /\ Len(stages) <= Len(StageOrder)
    /\ \A i \in 1..Len(stages) :
           /\ stages[i].stage = StageOrder[i]
           /\ i < Len(stages) => stages[i].kind = "Ok"
    /\ gets > 0 => (stages # << >> /\ stages[1].kind = "Ok")
    /\ pc = "decode" => (Len(stages) = 2 /\ stages[2].kind = "Ok")
    /\ (Len(stages) = 2 /\ stages[2].kind = "Err") =>
           /\ Done
           /\ out = ErrResult("HttpError")
           /\ pos = 0 /\ doc = << >> /\ finalized = << >>
    /\ (Returned /\ stages # << >>) =>
           LET last == stages[Len(stages)]
           IN  IF last.kind = "Ok"
               THEN /\ Len(stages) = Len(StageOrder)
                    /\ out = Decode(builder.kind, doc)
                    /\ out.kind = "Ok"
               ELSE out = ErrResult(last.err)

C13_Witness ==
    /\ Done
    /\ builder.kind = "RouteConfig"
    /\ Len(stages) = 2
    /\ stages[2] = [stage |-> "transport", kind |-> "Err", err |-> "HttpError"]
    /\ out = ErrResult("HttpError")
    /\ gets = 1

\* get() has run its decoder to the end (it returned or it panicked)
Decoded == Done /\ Len(stages) = Len(StageOrder)

\* the fields the data model gives without a question mark
SpecRequired(unit) ==
    CASE unit = "Agency" -> {"tag", "title", "region_title"}
      [] unit = "RouteListRoute" -> {"tag", "title"}
      [] unit = "Route" -> {"tag", "title", "color", "opposite_color",
                            "lat_min", "lat_max", "lon_min", "lon_max"}
      [] unit = "Stop" -> {"tag", "title", "lat", "lon"}
      [] unit = "Direction" -> {"tag", "title", "name", "use_for_ui"}
      [] unit = "StopStub" -> {"tag"}
      [] unit = "Point" -> {"lat", "lon"}
      [] unit = "Predictions" -> {"agency_title", "route_tag", "route_title",
                                  "stop_title"}
      [] unit = "PredictionDirection" -> {"title"}
      [] unit = "Prediction" -> {"seconds", "minutes", "epoch_time",
                                 "is_departure", "block", "dir_tag"}
      [] unit = "Message" -> {"text"}
      [] OTHER -> {}

LacksRequired(u) == \E f \in SpecRequired(u.unit) : u.scratch[f] = None

\* C14: as soon as a structural unit is finalized with a required field
\* unset, the decode is over and its result is ParseError; no unit is
\* finalized after it.
C14_UnsetRequiredIsParseError ==
    \A i \in 1..Len(finalized) :
        LacksRequired(finalized[i]) =>
            /\ i = Len(finalized)
            /\ Decoded
            /\ out = ErrResult("ParseError")

C14_Witness ==
    /\ Decoded
    /\ out = ErrResult("ParseError")
    /\ Len(finalized) = 3
    /\ finalized[3].unit = "Point"
    /\ finalized[3].scratch.lat # None
    /\ finalized[3].scratch.lon = None

\* the stream without the attributes named extra
StripExtra(d) ==
    [j \in 1..Len(d) |->
        [d[j] EXCEPT !.attributes = SelectSeq(@, LAMBDA a : a[1] # "extra")]]

HasExtra(d) ==
    \E j \in 1..Len(d) : \E k \in 1..Len(d[j].attributes) :
        d[j].attributes[k][1] = "extra"

\* C15: the decode of a response that carries an attribute no decoder
\* knows comes to what the decode of the same response without that
\* attribute comes to, the same aggregate or the same failure.
C15_UnknownAttributeIgnored ==
    Decoded => out = Decode(builder.kind, StripExtra(doc))

C15_Witness ==
    /\ Decoded
    /\ builder.kind = "RouteConfig"
    /\ Len(doc) > 4
    /\ doc[4].name = "stop"
    /\ doc[4].attributes[1] = << "extra", "extra" >>
    /\ out.kind = "Ok"
    /\ Len(out.value) = 1
    /\ Len(out.value[1].stops) = 2
    /\ Len(out.value[1].paths) = 1

IsAgency(e) == e.type = "StartElement" /\ e.name = "agency"

IsRoute(e) == e.type = "StartElement" /\ e.name = "route"

HasAttribute(e, name) ==
    \E k \in 1..Len(e.attributes) : e.attributes[k][1] = name

\* the value of the attribute of this name
Attribute(e, name) ==
    e.attributes[CHOOSE k \in 1..Len(e.attributes) :
                     e.attributes[k][1] = name][2]

\* a whole document: the stream ends with the end of the document
IsDocument(d) == d[Len(d)].type = "EndDocument"

ExpectedAgency(e) ==
    [tag |-> Attribute(e, "tag"),
     title |-> Attribute(e, "title"),
     short_title |-> IF HasAttribute(e, "shortTitle")
                     THEN Some(Attribute(e, "shortTitle")) ELSE None,
     region_title |-> Attribute(e, "regionTitle")]

ExpectedRoute(e) ==
    [tag |-> Attribute(e, "tag"),
     title |-> Attribute(e, "title"),
     short_title |-> IF HasAttribute(e, "shortTitle")
                     THEN Some(Attribute(e, "shortTitle")) ELSE None]

\* C16: an AgencyList (RouteList) document whose agency (route) elements
\* all carry tag, title (and regionTitle) decodes to one record for each
\* such element, in document order, the required fields holding the
\* attribute values and short_title set exactly when shortTitle is there.
C16_OneRecordPerElement ==
    /\ (/\ Decoded
        /\ builder.kind = "AgencyList"
        /\ IsDocument(doc)
        /\ \A j \in 1..Len(doc) :
               IsAgency(doc[j]) =>
                   \A n \in {"tag", "title", "regionTitle"} :
                       HasAttribute(doc[j], n))
       => LET es == SelectSeq(doc, IsAgency)
          IN  out = OkResult([i \in 1..Len(es) |-> ExpectedAgency(es[i])])
    /\ (/\ Decoded
        /\ builder.kind = "RouteList"
        /\ IsDocument(doc)
        /\ \A j \in 1..Len(doc) :
               IsRoute(doc[j]) =>
                   \A n \in {"tag", "title"} : HasAttribute(doc[j], n))
       => LET es == SelectSeq(doc, IsRoute)
          IN  out = OkResult([i \in 1..Len(es) |-> ExpectedRoute(es[i])])

C16_Witness ==
    /\ Decoded
    /\ builder.kind = "AgencyList"
    /\ IsDocument(doc)
    /\ out.kind = "Ok"
    /\ Len(out.value) = 2
    /\ out.value[1].tag = "agency-1"
    /\ out.value[1].short_title = None
    /\ out.value[2].tag = "agency-2"
    /\ out.value[2].short_title = Some("Ag 2")

\* the stream reports a syntax error
HasSyntaxError(d) == \E j \in 1..Len(d) : d[j].type = "Err"

\* C17: when the stream of the response reports a syntax error, the decode
\* returns a failure, never an aggregate of what it had read before.
C17_SyntaxErrorFailsDecode ==
    (Decoded /\ HasSyntaxError(doc)) => out.kind = "Err"

\* the attributes the claim names as numeric or boolean, by element
TypedAttributes(name) ==
    CASE name = "route" -> {"latMin", "latMax", "lonMin", "lonMax"}
      [] name = "direction" -> {"useForUI"}
      [] name = "point" -> {"lat", "lon"}
      [] name = "prediction" -> {"seconds", "minutes", "epochTime",
                                 "isDeparture", "isScheduleBased", "delayed"}
      [] OTHER -> {}

\* one of them holds a value that is no number and no boolean
HasMalformedValue(d) ==
    \E j \in 1..Len(d) : \E k \in 1..Len(d[j].attributes) :
        /\ d[j].attributes[k][1] \in TypedAttributes(d[j].name)
        /\ d[j].attributes[k][2] = "4x2"

\* C18: a response with a malformed value for a numeric or boolean
\* attribute makes the decode return a failure value; it does not panic.
C18_MalformedValueFailsDecode ==
    (Decoded /\ HasMalformedValue(doc)) => out.kind = "Err"

\* one route with n stops, a direction over their tags and an n-point path
RouteOfStops(n) ==
    Document(RouteElement(1, [stops |-> n, direction |-> TRUE,
                              path |-> TRUE]))

\* C19: a RouteConfig document with one route of n stop children, one
\* direction referring to the n stop tags in order and one path of n
\* points (n = 2 in the claim) decodes to one route whose stops are the n
\* stops in document order, whose directions[0].stops are the n tags in
\* order and whose paths[0].points has length n.
C19_RouteWithNestedChildren ==
    \A n \in 0..MaxChildren :
        (Decoded /\ builder.kind = "RouteConfig" /\ doc = RouteOfStops(n)) =>
            /\ out.kind = "Ok"
            /\ Len(out.value) = 1
            /\ Len(out.value[1].stops) = n
            /\ \A j \in 1..n : out.value[1].stops[j].tag = Name("stop-", j)
            /\ Len(out.value[1].directions) = 1
            /\ out.value[1].directions[1].stops =
                   [j \in 1..n |-> [tag |-> Name("stop-", j)]]
            /\ Len(out.value[1].paths) = 1
            /\ Len(out.value[1].paths[1].points) = n

C19_Witness ==
    /\ Decoded
    /\ builder.kind = "RouteConfig"
    /\ doc = RouteOfStops(2)
    /\ out.kind = "Ok"
    /\ Len(out.value[1].stops) = 2
    /\ out.value[1].directions[1].stops =
           << [tag |-> "stop-1"], [tag |-> "stop-2"] >>
    /\ Len(out.value[1].paths[1].points) = 2

IsDirectionStart(j) ==
    doc[j].type = "StartElement" /\ doc[j].name = "direction"

IsMessageStart(j) ==
    doc[j].type = "StartElement" /\ doc[j].name = "message"

\* the end tag of the direction that starts at j
DirectionEnd(j) ==
    CHOOSE e \in (j + 1)..Len(doc) :
        /\ doc[e] = EndElement("direction")
        /\ \A x \in (j + 1)..(e - 1) : doc[x] # EndElement("direction")

\* the seconds attributes of the predictions of the direction starting at j
SecondsWithin(j) ==
    LET inside == SelectSeq(SubSeq(doc, j + 1, DirectionEnd(j) - 1),
                            LAMBDA e : e.type = "StartElement"
                                       /\ e.name = "prediction")
    IN  [i \in 1..Len(inside) |-> Attribute(inside[i], "seconds")]

Positions == [j \in 1..Len(doc) |-> j]

\* C20: a Predictions document that decodes yields one PredictionDirection
\* for each top-level direction, holding the predictions between its start
\* and its end tag in document order, and one Message for each message.
C20_PredictionsGroupedByScope ==
    (Decoded /\ builder.kind = "Predictions" /\ IsDocument(doc)
        /\ out.kind = "Ok") =>
        LET ds == SelectSeq(Positions, IsDirectionStart)
            ms == SelectSeq(Positions, IsMessageStart)
        IN  /\ Len(out.value.directions) = Len(ds)
            /\ \A i \in 1..Len(ds) :
                   [p \in 1..Len(out.value.directions[i].predictions) |->
                       usize_to_string(
                           out.value.directions[i].predictions[p].seconds)]
                       = SecondsWithin(ds[i])
            /\ Len(out.value.messages) = Len(ms)
            /\ \A i \in 1..Len(ms) :
                   out.value.messages[i].text = Attribute(doc[ms[i]], "text")

C20_Witness ==
    /\ Decoded
    /\ builder.kind = "Predictions"
    /\ IsDocument(doc)
    /\ out.kind = "Ok"
    /\ Len(out.value.directions) = 1
    /\ Len(out.value.directions[1].predictions) = 2
    /\ out.value.directions[1].predictions[1].seconds = 41
    /\ out.value.directions[1].predictions[2].seconds = 42
    /\ Len(out.value.messages) = 1

\* ------------------------------------------------------------------------
\* The builder methods of the Request
\* ------------------------------------------------------------------------

Called(op) == ret'.op = op

\* C23: command, agency and time hold the argument of their last call;
\* route(r) leaves the route list [r] and routes(v) leaves it v, whatever
\* it held; stop(s) and stops(v) do the same for the stop list; each of
\* these methods leaves every other field as it was.
C23_SettersReplace ==
    [][/\ Called("command") =>
              /\ command' = Some(arg')
              /\ UNCHANGED << agency, routes, stops, time >>
       /\ Called("agency") =>
              /\ agency' = Some(arg')
              /\ UNCHANGED << command, routes, stops, time >>
       /\ Called("time") =>
              /\ time' = Some(arg')
              /\ UNCHANGED << command, agency, routes, stops >>
       /\ Called("route") =>
              /\ routes' = Some(<< arg' >>)
              /\ UNCHANGED << command, agency, stops, time >>
       /\ Called("routes") =>
              /\ routes' = Some(arg')
              /\ UNCHANGED << command, agency, stops, time >>
       /\ Called("stop") =>
              /\ stops' = Some(<< arg' >>)
              /\ UNCHANGED << command, agency, routes, time >>
       /\ Called("stops") =>
              /\ stops' = Some(arg')
              /\ UNCHANGED << command, agency, routes, time >>]_vars

C23_Witness ==
    /\ ret.op = "route"
    /\ arg = "two"
    /\ routes = Some(<< "two" >>)
    /\ stops = Some(<< "stop_1", "stop_2" >>)
    /\ command = Some("Messages")
    /\ time = Some(12)

\* the list an Option<Vec> stands for when a value is pushed onto it
Held(list) == IF list = None THEN << >> ELSE unwrap(list)

\* C24: add_route(r) leaves the route list equal to what it held followed
\* by r, [r] when it was unset, and add_stop(s) does the same for the stop
\* list, so that on a fresh Request add_stop has the effect of stop; no
\* other field changes.
C24_AddAppendsOne ==
    [][/\ Called("add_route") =>
              /\ routes' = Some(Held(routes) \o << arg' >>)
              /\ UNCHANGED << command, agency, stops, time >>
       /\ Called("add_stop") =>
              /\ stops' = Some(Held(stops) \o << arg' >>)
              /\ UNCHANGED << command, agency, routes, time >>]_vars

C24_Witness ==
    /\ ret.op = "add_stop"
    /\ arg = "stop_2"
    /\ stops = Some(<< "stop_1", "stop_2" >>)
    /\ routes = None
    /\ command = Some("PredictionsForMultiStops")

\* ------------------------------------------------------------------------
\* The nesting of the decoders
\* ------------------------------------------------------------------------

IsStart(j, name) == doc[j].type = "StartElement" /\ doc[j].name = name

\* the element that starts at i is still open before the j-th event
OpenAt(i, j) ==
    /\ i < j
    /\ doc[i].type = "StartElement"
    /\ \A e \in (i + 1)..(j - 1) : doc[e] # EndElement(doc[i].name)

\* the name of the innermost element open before the j-th event
Enclosing(j) ==
    doc[SetMax({ i \in 1..(j - 1) : OpenAt(i, j) })].name

\* the stream without the elements named unknown
WithoutUnknown(d) == SelectSeq(d, LAMBDA e : e.name # "unknown")

\* C21: a route with an element of an unknown name among its children
\* decodes to what it decodes to without that element: the children after
\* the unknown element are still collected into the route.
C21_UnknownElementInRouteTolerated ==
    (/\ Decoded
     /\ builder.kind = "RouteConfig"
     /\ \E j \in 2..Len(doc) : IsStart(j, "unknown") /\ Enclosing(j) = "route")
    => out = Decode("RouteConfig", WithoutUnknown(doc))

\* the required fields of the units nested in a route or in predictions
NestedRequired(unit) ==
    CASE unit \in {"Stop", "Direction", "StopStub", "Point", "Prediction",
                   "Message"} -> SpecRequired(unit)
      [] unit = "Path" -> {"tag"}
      [] OTHER -> {}

\* C25: when a stop, direction, stop reference, path or point of a route,
\* or a prediction or message of a Predictions document, cannot be
\* finalized, the decode is over at once with the failure as its result
\* and no aggregate, whatever routes or directions were complete before.
C25_NestedFailureIsTotal ==
    \A i \in 1..Len(finalized) :
        (\E f \in NestedRequired(finalized[i].unit) :
             finalized[i].scratch[f] = None) =>
            /\ Done
            /\ out.kind = "Err"
            /\ out.value = << >>
            /\ stack = << >>
            /\ i = Len(finalized)

C25_Witness ==
    /\ Decoded
    /\ out = ErrResult("ParseError")
    /\ \E i \in 1..Len(finalized) :
           finalized[i].unit = "Route" /\ ~LacksRequired(finalized[i])
    /\ finalized[Len(finalized)].unit = "StopStub"
    /\ finalized[Len(finalized)].scratch.tag = None

\* the end tag of the element that starts at j
EndOf(j) ==
    CHOOSE e \in (j + 1)..Len(doc) :
        /\ doc[e] = EndElement(doc[j].name)
        /\ \A x \in (j + 1)..(e - 1) : doc[x] # EndElement(doc[j].name)

\* the j-th event lies between the start at s and its end tag
Inside(j, s) == s < j /\ j < EndOf(s)

\* the starts of the elements of this name inside the element starting at s
StartsIn(s, name) ==
    SelectSeq(Positions, LAMBDA j : IsStart(j, name) /\ Inside(j, s))

\* the starts of the stop elements that are children of the route at s
DirectStops(s) ==
    SelectSeq(Positions, LAMBDA j : /\ IsStart(j, "stop")
                                    /\ Inside(j, s)
                                    /\ Enclosing(j) = "route")

\* a whole RouteConfig document of known elements only, and it decoded
RouteConfigDecoded ==
    /\ Decoded
    /\ builder.kind = "RouteConfig"
    /\ IsDocument(doc)
    /\ \A j \in 1..Len(doc) : doc[j].name # "unknown"
    /\ out.kind = "Ok"

Tags(starts) == [k \in 1..Len(starts) |-> Attribute(doc[starts[k]], "tag")]

\* C26: the routes decoded from a RouteConfig document are its route
\* elements in order, and route i holds the stop, direction and path
\* children between the start and the end tag of the i-th route element,
\* each kind in document order, however the kinds are interleaved; a
\* document of complete elements does decode.
C26_ChildrenFollowTheirRoute ==
    /\ (Decoded /\ doc \in InterleavedRouteDocs) => out.kind = "Ok"
    /\ RouteConfigDecoded =>
           LET rs == SelectSeq(Positions, LAMBDA j : IsStart(j, "route"))
           IN  /\ Len(out.value) = Len(rs)
               /\ \A i \in 1..Len(rs) :
                      LET route == out.value[i]
                          ds == StartsIn(rs[i], "direction")
                          ps == StartsIn(rs[i], "path")
                      IN  /\ route.tag = Attribute(doc[rs[i]], "tag")
                          /\ [k \in 1..Len(route.stops) |-> route.stops[k].tag]
                                 = Tags(DirectStops(rs[i]))
                          /\ [k \in 1..Len(route.directions) |->
                                 [m \in 1..Len(route.directions[k].stops) |->
                                     route.directions[k].stops[m].tag]]
                                 = [k \in 1..Len(ds) |->
                                       Tags(StartsIn(ds[k], "stop"))]
                          /\ [k \in 1..Len(route.paths) |->
                                 Len(route.paths[k].points)]
                                 = [k \in 1..Len(ps) |->
                                       Len(StartsIn(ps[k], "point"))]

C26_Witness ==
    /\ Decoded
    /\ doc = Document(RouteWith(1, Children(<< "path", "stop", "direction" >>)))
    /\ out.kind = "Ok"
    /\ Len(out.value) = 1
    /\ Len(out.value[1].paths[1].points) = 1
    /\ out.value[1].stops[1].tag = "stop-2"
    /\ Len(out.value[1].directions[1].stops) = 0

\* C27: a stop element inside a direction becomes a tag reference in the
\* stops of that direction and nothing in the stops of the route; a stop
\* element that is a child of the route becomes a Stop of the route and
\* nothing in a direction.
C27_DirectionStopsAreReferences ==
    RouteConfigDecoded =>
        LET rs == SelectSeq(Positions, LAMBDA j : IsStart(j, "route"))
        IN  \A i \in 1..Len(rs) :
              LET ds == StartsIn(rs[i], "direction")
              IN  /\ Len(out.value[i].stops) =
                         Cardinality({ j \in 1..Len(doc) :
                                         /\ IsStart(j, "stop")
                                         /\ Inside(j, rs[i])
                                         /\ \A k \in 1..Len(ds) :
                                                ~Inside(j, ds[k]) })
                  /\ \A k \in 1..Len(out.value[i].stops) :
                         "title" \in DOMAIN out.value[i].stops[k]
                  /\ \A k \in 1..Len(ds) :
                         LET refs == out.value[i].directions[k].stops
                         IN  /\ Len(refs) =
                                    Cardinality({ j \in 1..Len(doc) :
                                                    /\ IsStart(j, "stop")
                                                    /\ Inside(j, ds[k]) })
                             /\ \A m \in 1..Len(refs) :
                                    DOMAIN refs[m] = {"tag"}

C27_Witness ==
    /\ RouteConfigDecoded
    /\ Len(out.value) = 2
    /\ Len(out.value[2].stops) = 2
    /\ out.value[2].directions[1].stops =
           << [tag |-> "stop-1"], [tag |-> "stop-2"] >>
    /\ Len(out.value[1].stops) = 1

\* C30: at most three parse functions are open: from_xml, under it
\* parse_route_elements (or parse_prediction_elements, with nothing under
\* it), and under parse_route_elements one parse_direction or one
\* parse_path, never both and nothing under either.
C30_StackDepthAtMostThree ==
    /\ Len(stack) <= 3
    /\ Len(stack) >= 1 =>
           stack[1].fn \in {"AgencyListBuilder::from_xml",
                            "RouteListBuilder::from_xml",
                            "RouteConfigBuilder::from_xml",
                            "PredictionsBuilder::from_xml"}
    /\ Len(stack) >= 2 =>
           \/ /\ stack[1].fn = "RouteConfigBuilder::from_xml"
              /\ stack[2].fn = "parse_route_elements"
           \/ /\ stack[1].fn = "PredictionsBuilder::from_xml"
              /\ stack[2].fn = "parse_prediction_elements"
              /\ Len(stack) = 2
    /\ Len(stack) = 3 => stack[3].fn \in {"parse_direction", "parse_path"}

C30_Witness ==
    /\ pc = "decode"
    /\ Len(stack) = 3
    /\ stack[3].fn = "parse_path"
    /\ Len(stack[3].points) = 1
    /\ Len(stack[2].directions) = 1

\* the element whose end tag a sub-loop breaks on
ScopeName(fn) ==
    CASE fn = "parse_route_elements" -> "route"
      [] fn = "parse_direction" -> "direction"
      [] fn = "parse_path" -> "path"
      [] fn = "parse_prediction_elements" -> "direction"

\* C28: a sub-loop (of a route, a direction or a path) hands the parser
\* back to the loop that called it exactly on the end tag of its own
\* element: reading that end tag it leaves, it leaves on no other event,
\* and the caller reads the event after the end tag.
C28_SubLoopReturnsAtOwnEndTag ==
    [][ (pc = "decode" /\ Len(stack) >= 2) =>
          LET own == EndElement(ScopeName(stack[Len(stack)].fn))
          IN  /\ EventAt(doc, pos) = own => Len(stack') < Len(stack)
              /\ (Len(stack') = Len(stack) - 1) =>
                     /\ EventAt(doc, pos) = own
                     /\ pos' = pos + 1
                     /\ stack'[Len(stack')].fn = stack[Len(stack) - 1].fn
      ]_vars

\* C29: a decoder that has been started returns: on every response, also
\* one that breaks off with a syntax error inside a route, a direction or
\* a path, from_xml comes to a result after finitely many reads.
C29_DecoderTerminates == (pc = "decode") ~> (pc = "done")

C29_Witness ==
    /\ Decoded
    /\ builder.kind = "RouteConfig"
    /\ doc[Len(doc)] = ErrEvent
    /\ \E i \in 1..(Len(doc) - 1) : OpenAt(i, Len(doc)) /\ doc[i].name = "path"
    /\ finalized[Len(finalized)].unit = "Route"
    /\ pos >= Len(doc)

\* C22: two calls of the same from_xml on the same event stream come to
\* the same result, the same aggregate or the same error, whatever was
\* decoded before and between them.
C22_DecodingIsDeterministic ==
    \A i, j \in 1..Len(decoded) :
        (decoded[i].fn = decoded[j].fn /\ decoded[i].doc = decoded[j].doc)
            => decoded[i].out = decoded[j].out

C22_Witness ==
    /\ Len(decoded) = 3
    /\ decoded[1].fn = "PredictionsBuilder::from_xml"
    /\ decoded[3].fn = decoded[1].fn
    /\ decoded[3].doc = decoded[1].doc
    /\ decoded[1].out.kind = "Ok"
    /\ decoded[2].fn = "AgencyListBuilder::from_xml"
    /\ decoded[2].out.kind = "Err"
    /\ decoded[3].out = decoded[1].out

\* ------------------------------------------------------------------------
\* send, the builders' Requests, and the remaining decoder rules
\* ------------------------------------------------------------------------

\* C31: one call of send issues at most one GET; when the transport fails
\* the call returns Err(HttpError) after exactly that one GET, and a call
\* that issued no GET did not come to the transport at all.
C31_SendIssuesAtMostOneGet ==
    [][ ret'.op = "send" =>
          /\ gets' \in {gets, gets + 1}
          /\ ret'.err = "HttpError" => (ret'.kind = "Err" /\ gets' = gets + 1)
          /\ ret'.kind = "Ok" => gets' = gets + 1
      ]_vars

C31_Witness ==
    /\ Sent
    /\ ret = RetErr("send", "HttpError")
    /\ gets = 1
    /\ validate(Request, "get_url").kind = "Ok"
    /\ CommandIs("Predictions")

\* the builder passes the required-field check of its get()
BuilderComplete ==
    /\ builder.kind \in BuilderKinds
    /\ \A f \in BuilderRequired(builder.kind) : builder[f] # None

\* C32: the Request a per-command builder assembles once its own
\* required-field check has passed is accepted by validate: the validate
\* stage of every get() that came that far is Ok and get() never returns
\* BuildUrlError.
C32_BuildersAssembleValidRequests ==
    /\ BuilderComplete => validate(GetRequest(builder), "send").kind = "Ok"
    /\ out.err # "BuildUrlError"
    /\ (pc # "idle" /\ out.err # "BuildCommandError") =>
           /\ stages # << >>
           /\ stages[1] = [stage |-> "validate", kind |-> "Ok", err |-> ""]
           /\ validate(Request, "send").kind = "Ok"

C32_Witness ==
    /\ pc = "done"
    /\ builder.kind = "Predictions"
    /\ BuilderComplete
    /\ stages[1].kind = "Ok"
    /\ Request = GetRequest(builder)
    /\ routes = Some(<< "one" >>)
    /\ stops = Some(<< "stop_1" >>)
    /\ out.kind = "Ok"

\* the builder fields a get() of this kind cannot do without
MustBeSet(kind) ==
    CASE kind \in {"RouteList", "RouteConfig"} -> {"agency"}
      [] kind = "Predictions" -> {"agency", "route", "stop"}
      [] OTHER -> {}

\* C33: a get() on a builder with a required field unset returns
\* BuildCommandError with no Request built or validated and no GET issued.
C33_UnsetBuilderFieldFailsFirst ==
    (Done /\ \E f \in MustBeSet(builder.kind) : builder[f] = None) =>
        /\ out = ErrResult("BuildCommandError")
        /\ stages = << >>
        /\ gets = 0
        /\ Request = [command |-> None, agency |-> None, routes |-> None,
                      stops |-> None, time |-> None]
        /\ ret.op = "new"
        /\ doc = << >>

C33_Witness ==
    /\ Done
    /\ builder = [kind |-> "Predictions", agency |-> Some("mbta"),
                  route |-> Some("one"), stop |-> None]
    /\ out = ErrResult("BuildCommandError")
    /\ stages = << >>
    /\ gets = 0

\* the prediction elements of the direction that starts at j
PredictionsWithin(j) ==
    SelectSeq(SubSeq(doc, j + 1, DirectionEnd(j) - 1),
              LAMBDA e : e.type = "StartElement" /\ e.name = "prediction")

\* C34: the affected_by_layover of a decoded Prediction is the boolean of
\* the affectedByLayover attribute of its prediction element, and is None
\* only for an element without that attribute.
C34_AffectedByLayoverIsRead ==
    (Decoded /\ builder.kind = "Predictions" /\ IsDocument(doc)
        /\ out.kind = "Ok") =>
        LET ds == SelectSeq(Positions, IsDirectionStart)
        IN  \A i \in 1..Len(ds) :
              \A p \in 1..Len(PredictionsWithin(ds[i])) :
                LET e == PredictionsWithin(ds[i])[p]
                IN  out.value.directions[i].predictions[p].affected_by_layover
                      = IF HasAttribute(e, "affectedByLayover")
                        THEN parse("bool", Attribute(e, "affectedByLayover"))
                        ELSE None

\* C35: in every state of the builder append_routes([r]) comes to the
\* route list add_route(r) comes to, append_stops([s]) to the stop list of
\* add_stop(s), and a list appended to an unset list is the list held
\* afterwards.
C35_AppendOneIsAddOne ==
    /\ \A r \in RouteNames :
           append_routes(routes, << r >>) = add_route(routes, r)
    /\ \A s \in StopNames :
           append_stops(stops, << s >>) = add_stop(stops, s)
    /\ \A v \in RouteLists :
           is_none(routes) => append_routes(routes, v) = Some(v)
    /\ \A v \in StopLists :
           is_none(stops) => append_stops(stops, v) = Some(v)

\* some predictions element of the document carries this attribute
PredictionsCarries(a) ==
    \E j \in 1..Len(doc) :
        IsStart(j, "predictions") /\ HasAttribute(doc[j], a)

PredictionsTitles == {"agencyTitle", "routeTag", "routeTitle", "stopTitle"}

C37_ValidatorsAgree ==
    LET n == NextBusUrl_new(Request)
        v == validate(Request, "get_url")
    IN  /\ (n.kind = "Ok") <=> (v.kind = "Ok")
        /\ (n.kind = "Ok" /\ v.kind = "Ok") => n.url = v.url

\* the tag children with an id inside the path that starts at s
TagsWithId(s) ==
    SelectSeq(Positions, LAMBDA j : /\ IsStart(j, "tag")
                                    /\ Inside(j, s)
                                    /\ HasAttribute(doc[j], "id"))

\* C38: the tag of a decoded Path is the id of the last tag child of its
\* path element that carries one, and a document with a path element that
\* has no tag child with an id decodes to ParseError, valid points or not.
C38_PathTagFromTagChild ==
    (Decoded /\ builder.kind = "RouteConfig" /\ IsDocument(doc)
        /\ out.kind # "Panic"
        /\ \A j \in 1..Len(doc) : doc[j].name # "unknown") =>
        LET rs == SelectSeq(Positions, LAMBDA j : IsStart(j, "route"))
            all == SelectSeq(Positions, LAMBDA j : IsStart(j, "path"))
        IN  /\ (\E k \in 1..Len(all) : TagsWithId(all[k]) = << >>) =>
                   out = ErrResult("ParseError")
            /\ out.kind = "Ok" =>
                   \A i \in 1..Len(rs) :
                       LET ps == StartsIn(rs[i], "path")
                       IN  \A k \in 1..Len(ps) :
                             LET ids == TagsWithId(ps[k])
                             IN  out.value[i].paths[k].tag =
                                     Attribute(doc[ids[Len(ids)]], "id")

C38_Witness ==
    /\ Decoded
    /\ doc = Document(RouteWith(1, PathWithTags(<< "path-1", "path-2" >>,
                                                << "path-1" >>)))
    /\ out.kind = "Ok"
    /\ out.value[1].paths[1].tag = "path-1"
    /\ Len(out.value[1].paths[1].points) = 1

====
